---- MODULE Spec2Model ----
(***************************************************************************)
(* QUBEKit: the Modified Seminario Method (QUBEKit/mod_seminario.py).      *)
(*                                                                         *)
(* Number model.  Every Python/numpy float is a fixed-point integer: the   *)
(* float x is the integer x * FP, and products, quotients and square roots *)
(* are rounded to the nearest representable value, as IEEE 754 arithmetic  *)
(* rounds them (at a coarser resolution).  numpy's nan (0/0 in             *)
(* unit_vector_n and vector_along_bond) is the value NaN, which every      *)
(* arithmetic operation propagates.                                        *)
(* The 3x3 Hessian blocks are diagonal, so that numpy.linalg.eig returns   *)
(* the diagonal as eigenvalues and the identity as eigenvectors.           *)
(***************************************************************************)
EXTENDS Integers, Sequences, FiniteSets, TLC

(* ---------------------------------------------------------------------- *)
(* Floats as fixed point                                                   *)
(* ---------------------------------------------------------------------- *)

\* one float unit (1.0)
FP == 1000

\* numpy nan
NaN == 0 - 1000000000

IsNaN(x) == x = NaN

Mag(x) == IF x < 0 THEN 0 - x ELSE x

Sgn(x) == IF x < 0 THEN 0 - 1 ELSE 1

\* abs(x)
FAbs(x) == IF IsNaN(x) THEN NaN ELSE Mag(x)

\* x + y
FAdd(x, y) == IF IsNaN(x) \/ IsNaN(y) THEN NaN ELSE x + y

\* x - y
FSub(x, y) == IF IsNaN(x) \/ IsNaN(y) THEN NaN ELSE x - y

\* x * y
FMul(x, y) ==
  IF IsNaN(x) \/ IsNaN(y) THEN NaN
  ELSE LET a == Mag(x)
           b == Mag(y)
       IN  Sgn(x) * Sgn(y) * ((a \div FP) * b + ((a % FP) * b + FP \div 2) \div FP)

\* x / y for numpy scalars: a zero divisor gives a non-finite value, no exception
FDiv(x, y) ==
  IF IsNaN(x) \/ IsNaN(y) \/ y = 0 THEN NaN
  ELSE LET a == Mag(x)
           b == Mag(y)
       IN  IF b < 2000000
           THEN Sgn(x) * Sgn(y) * ((a \div b) * FP + ((a % b) * FP + b \div 2) \div b)
           ELSE Sgn(x) * Sgn(y) * ((a + (b \div FP) \div 2) \div (b \div FP))

\* Python truth value of a float: only 0.0 is false (nan is true)
Truthy(x) == IsNaN(x) \/ x # 0

RECURSIVE NewtonSqrt(_, _)
NewtonSqrt(n, x) ==
  LET y == (x + n \div x) \div 2
  IN  IF y >= x THEN x ELSE NewtonSqrt(n, y)

\* floor of the square root of the integer n
FloorSqrt(n) == IF n <= 0 THEN 0 ELSE NewtonSqrt(n, IF n < 46340 THEN n ELSE 46340)

\* the integer nearest to the square root of the integer n
ISqrt(n) ==
  LET r == FloorSqrt(n)
  IN  IF n - r * r > r THEN r + 1 ELSE r

\* x ** 0.5, x >= 0
FSqrt(x) ==
  IF IsNaN(x) THEN NaN
  ELSE IF x < 2000000 THEN ISqrt(x * FP)
  ELSE 10 * ISqrt(x * 10)

RECURSIVE CbrtSearch(_, _, _)
\* the largest r in lo..hi with r * r * r <= n
CbrtSearch(n, lo, hi) ==
  IF lo >= hi THEN lo
  ELSE LET mid == (lo + hi + 1) \div 2
       IN  IF mid * mid * mid <= n THEN CbrtSearch(n, mid, hi)
           ELSE CbrtSearch(n, lo, mid - 1)

\* the integer nearest to the cube root of n, 0 <= n <= 2 * 10^9
ICbrt(n) ==
  LET r == CbrtSearch(n, 0, 1259)
      u == r + 1
  IN  IF n - r * r * r > u * u * u - n THEN u ELSE r

\* x ** (1 / 3), x >= 0
FCbrt(x) ==
  IF IsNaN(x) THEN NaN
  ELSE IF x <= 2000 THEN ICbrt(x * 1000000)
  ELSE IF x <= 2000000 THEN 10 * ICbrt(x * 1000)
  ELSE 100 * ICbrt(x)

\* x ** 2
FSquare(x) == FMul(x, x)

\* x ** 6
FPow6(x) == FSquare(FMul(FSquare(x), x))

\* x ** (1 / 6), x >= 0
FSixthRoot(x) == FCbrt(FSqrt(x))

(* ---------------------------------------------------------------------- *)
(* Vectors: numpy arrays of 3 floats                                       *)
(* ---------------------------------------------------------------------- *)

NaNVec == <<NaN, NaN, NaN>>

VecIsNaN(v) == IsNaN(v[1]) \/ IsNaN(v[2]) \/ IsNaN(v[3])

VSub(u, v) == <<FSub(u[1], v[1]), FSub(u[2], v[2]), FSub(u[3], v[3])>>

\* numpy.cross
cross(u, v) ==
  <<FSub(FMul(u[2], v[3]), FMul(u[3], v[2])),
    FSub(FMul(u[3], v[1]), FMul(u[1], v[3])),
    FSub(FMul(u[1], v[2]), FMul(u[2], v[1]))>>

\* numpy.dot of two vectors
dot(u, v) == FAdd(FAdd(FMul(u[1], v[1]), FMul(u[2], v[2])), FMul(u[3], v[3]))

\* numpy.linalg.norm
norm(v) ==
  IF VecIsNaN(v) THEN NaN
  ELSE ISqrt(v[1] * v[1] + v[2] * v[2] + v[3] * v[3])

\* array / scalar: 0/0 is nan (a RuntimeWarning, not an exception)
VDiv(v, s) == <<FDiv(v[1], s), FDiv(v[2], s), FDiv(v[3], s)>>

\* builtin sum over the 3 components
VSum(v) == FAdd(FAdd(v[1], v[2]), v[3])

\* sin(theta), theta = 0..199 radians (index theta + 1)
SinTab ==
  <<
    0, 841, 909, 141, -757, -959, -279, 657, 989, 412,
    -544, -1000, -537, 420, 991, 650, -288, -961, -751, 150,
    913, 837, -9, -846, -906, -132, 763, 956, 271, -664,
    -988, -404, 551, 1000, 529, -428, -992, -644, 296, 964,
    745, -159, -917, -832, 18, 851, 902, 124, -768, -954,
    -262, 670, 987, 396, -559, -1000, -522, 436, 993, 637,
    -305, -966, -739, 167, 920, 827, -27, -856, -898, -115,
    774, 951, 254, -677, -985, -388, 566, 1000, 514, -444,
    -994, -630, 313, 968, 733, -176, -923, -822, 35, 860,
    894, 106, -779, -948, -245, 683, 984, 380, -573, -999,
    -506, 452, 995, 623, -322, -971, -727, 185, 927, 817,
    -44, -865, -890, -97, 785, 945, 237, -690, -982, -371,
    581, 999, 499, -460, -996, -616, 330, 973, 721, -193,
    -930, -812, 53, 869, 886, 88, -790, -943, -228, 696,
    980, 363, -588, -998, -491, 468, 996, 609, -338, -975,
    -715, 202, 933, 806, -62, -873, -882, -80, 796, 940,
    219, -702, -978, -355, 595, 998, 483, -476, -997, -602,
    347, 977, 709, -211, -936, -801, 71, 878, 878, 71,
    -801, -936, -211, 709, 977, 347, -602, -997, -476, 483,
    998, 595, -355, -978, -702, 219, 940, 796, -80, -882
  >>

\* cos(theta), theta = 0..199 radians (index theta + 1)
CosTab ==
  <<
    1000, 540, -416, -990, -654, 284, 960, 754, -146, -911,
    -839, 4, 844, 907, 137, -760, -958, -275, 660, 989,
    408, -548, -1000, -533, 424, 991, 647, -292, -963, -748,
    154, 915, 834, -13, -849, -904, -128, 765, 955, 267,
    -667, -987, -400, 555, 1000, 525, -432, -992, -640, 301,
    965, 742, -163, -918, -829, 22, 853, 900, 119, -771,
    -952, -258, 674, 986, 392, -562, -1000, -518, 440, 993,
    633, -309, -967, -736, 172, 922, 824, -31, -858, -896,
    -110, 777, 950, 250, -680, -984, -384, 570, 999, 510,
    -448, -994, -626, 317, 969, 730, -180, -925, -819, 40,
    862, 892, 102, -782, -947, -241, 686, 983, 376, -577,
    -999, -503, 456, 995, 620, -326, -972, -724, 189, 928,
    814, -49, -867, -888, -93, 788, 944, 232, -693, -981,
    -367, 584, 999, 495, -464, -996, -613, 334, 974, 718,
    -198, -932, -809, 58, 871, 884, 84, -793, -941, -224,
    699, 979, 359, -591, -998, -487, 472, 997, 606, -342,
    -976, -712, 206, 935, 804, -66, -875, -880, -75, 798,
    938, 215, -706, -978, -351, 598, 997, 479, -479, -997,
    -598, 351, 978, 706, -215, -938, -798, 75, 880, 875,
    66, -804, -935, -206, 712, 976, 342, -606, -997, -472
  >>

\* cos of d degrees, d = 0..180 (index d + 1)
CosDegTab ==
  <<
    1000, 1000, 999, 999, 998, 996, 995, 993, 990, 988,
    985, 982, 978, 974, 970, 966, 961, 956, 951, 946,
    940, 934, 927, 921, 914, 906, 899, 891, 883, 875,
    866, 857, 848, 839, 829, 819, 809, 799, 788, 777,
    766, 755, 743, 731, 719, 707, 695, 682, 669, 656,
    643, 629, 616, 602, 588, 574, 559, 545, 530, 515,
    500, 485, 469, 454, 438, 423, 407, 391, 375, 358,
    342, 326, 309, 292, 276, 259, 242, 225, 208, 191,
    174, 156, 139, 122, 105, 87, 70, 52, 35, 17,
    0, -17, -35, -52, -70, -87, -105, -122, -139, -156,
    -174, -191, -208, -225, -242, -259, -276, -292, -309, -326,
    -342, -358, -375, -391, -407, -423, -438, -454, -469, -485,
    -500, -515, -530, -545, -559, -574, -588, -602, -616, -629,
    -643, -656, -669, -682, -695, -707, -719, -731, -743, -755,
    -766, -777, -788, -799, -809, -819, -829, -839, -848, -857,
    -866, -875, -883, -891, -899, -906, -914, -921, -927, -934,
    -940, -946, -951, -956, -961, -966, -970, -974, -978, -982,
    -985, -988, -990, -993, -995, -996, -998, -999, -999, -1000,
    -1000
  >>


(* ---------------------------------------------------------------------- *)
(* math.acos, math.degrees                                                 *)
(* ---------------------------------------------------------------------- *)

RECURSIVE NearestDeg(_, _, _)
\* the least d in lo..hi with cos(d degrees) <= x (the table decreases with d)
NearestDeg(x, lo, hi) ==
  IF lo >= hi THEN lo
  ELSE LET mid == (lo + hi) \div 2
       IN  IF CosDegTab[mid + 1] <= x THEN NearestDeg(x, lo, mid)
           ELSE NearestDeg(x, mid + 1, hi)

\* math.acos raises ValueError (math domain error) outside [-1, 1]
acos_raises(x) == ~IsNaN(x) /\ Mag(x) > FP

\* math.acos: radians, to a resolution of one degree; acos(nan) is nan
acos(x) ==
  IF IsNaN(x) \/ acos_raises(x) THEN NaN ELSE (NearestDeg(x, 0, 180) * 31416) \div 1800

\* math.degrees: x * 180 / pi
degrees(x) ==
  IF IsNaN(x) THEN NaN ELSE Sgn(x) * ((Mag(x) * 180000) \div 3142)

(* ---------------------------------------------------------------------- *)
(* class ModSemMaths                                                       *)
(* ---------------------------------------------------------------------- *)

\* unit normal vector, perpendicular to the plane abc
unit_vector_n(u_bc, u_ab) ==
  LET c == cross(u_bc, u_ab)
  IN  VDiv(c, norm(c))

vector_along_bond(coords, atom_a, atom_b) ==
  LET diff_ab == VSub(coords[atom_b], coords[atom_a])
  IN  VDiv(diff_ab, norm(diff_ab))

\* the vector in the plane a, b, c and perpendicular to a to b
u_pa_from_angles(atom_a, atom_b, atom_c, coords) ==
  LET u_ab == vector_along_bond(coords, atom_a, atom_b)
      u_cb == vector_along_bond(coords, atom_c, atom_b)
      u_n  == unit_vector_n(u_cb, u_ab)
  IN  unit_vector_n(u_n, u_ab)

\* sum(u_pa[i] * eig_ab[i].conjugate() for i in range(3)), real entries
dot_product(u_pa, eig_ab) ==
  FAdd(FAdd(FMul(u_pa[1], eig_ab[1]), FMul(u_pa[2], eig_ab[2])), FMul(u_pa[3], eig_ab[3]))

\* eigenvecs[:, i]: column i (0-based) of a 3x3 matrix kept as rows
Col(m, i) == <<m[1][i + 1], m[2][i + 1], m[3][i + 1]>>

\* sum(vals[i] * abs(<u, vecs[:, i]>) for i in range(3)) with numpy.dot
WeightedNpDot(vals, vecs, u) ==
  FAdd(FAdd(FMul(vals[1], FAbs(dot(u, Col(vecs, 0)))),
            FMul(vals[2], FAbs(dot(u, Col(vecs, 1))))),
       FMul(vals[3], FAbs(dot(u, Col(vecs, 2)))))

\* the same sum without the absolute value
WeightedProjectionSigned(vals, vecs, u) ==
  FAdd(FAdd(FMul(vals[1], dot_product(u, Col(vecs, 0))),
            FMul(vals[2], dot_product(u, Col(vecs, 1)))),
       FMul(vals[3], dot_product(u, Col(vecs, 2))))

\* sum(vals[i] * abs(dot_product(u, vecs[:, i])) for i in range(3))
WeightedProjection(vals, vecs, u) ==
  FAdd(FAdd(FMul(vals[1], FAbs(dot_product(u, Col(vecs, 0)))),
            FMul(vals[2], FAbs(dot_product(u, Col(vecs, 1))))),
       FMul(vals[3], FAbs(dot_product(u, Col(vecs, 2)))))

force_constant_bond(atom_a, atom_b, eigenvals, eigenvecs, coords) ==
  LET eigenvals_ab    == eigenvals[atom_a][atom_b]
      eigenvecs_ab    == eigenvecs[atom_a][atom_b]
      unit_vectors_ab == vector_along_bond(coords, atom_a, atom_b)
  IN  FMul(0 - (FP \div 2), WeightedNpDot(eigenvals_ab, eigenvecs_ab, unit_vectors_ab))

\* two springs in series, then the OPLS form: abs(0.5 / (1/(l1^2 s1) + 1/(l2^2 s2)))
SpringsInSeries(len_ab, len_bc, sum_first, sum_second) ==
  LET k_sum == FAdd(FDiv(FP, FMul(FMul(len_ab, len_ab), sum_first)),
                    FDiv(FP, FMul(FMul(len_bc, len_bc), sum_second)))
  IN  FAbs(FMul(FDiv(FP, k_sum), FP \div 2))

\* number of samples around the bond
n_samples == 200

\* the synthetic normal of sample theta
SampleNormal(theta) ==
  <<FMul(SinTab[theta + 1], CosTab[theta + 1]),
    FMul(SinTab[theta + 1], SinTab[theta + 1]),
    CosTab[theta + 1]>>

\* k_theta_array[theta]
k_theta_sample(theta, u_ab, u_cb, bond_lens2, eigenvals2, eigenvecs2) ==
  LET u_n  == SampleNormal(theta)
      u_pa == unit_vector_n(u_n, u_ab)
      u_pc == unit_vector_n(u_cb, u_n)
      sum_first  == WeightedProjection(eigenvals2[1], eigenvecs2[1], u_pa)
      sum_second == WeightedProjection(eigenvals2[2], eigenvecs2[2], u_pc)
  IN  SpringsInSeries(bond_lens2[1], bond_lens2[2], sum_first, sum_second)

RECURSIVE SumArray(_, _, _)
\* arr[lo] + ... + arr[hi]
SumArray(arr, lo, hi) ==
  IF lo > hi THEN 0
  ELSE IF lo = hi THEN arr[lo]
  ELSE LET mid == (lo + hi) \div 2
       IN  FAdd(SumArray(arr, lo, mid), SumArray(arr, mid + 1, hi))

\* numpy.average
average(arr) == FDiv(SumArray(arr, 1, Len(arr)), Len(arr) * FP)

\* force constant angle special case: (k_theta, theta_0), theta_0 as acos gives it
f_c_a_special_case(u_ab, u_cb, bond_lens2, eigenvals2, eigenvecs2) ==
  LET k_theta_array ==
        [t \in 1..n_samples |->
           k_theta_sample(t - 1, u_ab, u_cb, bond_lens2, eigenvals2, eigenvecs2)]
  IN  [k_theta |-> average(k_theta_array),
       theta_0 |-> acos(dot(u_ab, u_cb)),
       branch  |-> "special",
       samples |-> Len(k_theta_array),
       raised  |-> acos_raises(dot(u_ab, u_cb))]

\* the test of line 82: if sum(u_n)
TakesSpecialCase(u_n) == Truthy(VSum(u_n))

\* the else branch of force_constant_angle (lines 88-103)
regular_case(u_ab, u_cb, u_n, bond_lens2, eigenvals2, eigenvecs2, scalings) ==
  LET u_pa == unit_vector_n(u_n, u_ab)
      u_pc == unit_vector_n(u_cb, u_n)
      sum_first  == FDiv(WeightedProjection(eigenvals2[1], eigenvecs2[1], u_pa), scalings[1])
      sum_second == FDiv(WeightedProjection(eigenvals2[2], eigenvecs2[2], u_pc), scalings[2])
  IN  [k_theta |-> SpringsInSeries(bond_lens2[1], bond_lens2[2], sum_first, sum_second),
       theta_0 |-> degrees(acos(dot(u_ab, u_cb))),
       branch  |-> "regular",
       samples |-> 0,
       raised  |-> acos_raises(dot(u_ab, u_cb))]

\* returns (k_theta, theta_0), or raises what acos raises; branch and samples record
\* the path taken
force_constant_angle(atom_a, atom_b, atom_c, bond_lens, eigenvals, eigenvecs, coords, scalings) ==
  LET u_ab == vector_along_bond(coords, atom_a, atom_b)
      u_cb == vector_along_bond(coords, atom_c, atom_b)
      bond_len_ab  == bond_lens[atom_a][atom_b]
      eigenvals_ab == eigenvals[atom_a][atom_b]
      eigenvecs_ab == eigenvecs[atom_a][atom_b]
      bond_len_bc  == bond_lens[atom_b][atom_c]
      eigenvals_cb == eigenvals[atom_c][atom_b]
      eigenvecs_cb == eigenvecs[atom_c][atom_b]
      u_n == unit_vector_n(u_cb, u_ab)
  IN  IF TakesSpecialCase(u_n)
      THEN f_c_a_special_case(u_ab, u_cb, <<bond_len_ab, bond_len_bc>>,
                              <<eigenvals_ab, eigenvals_cb>>, <<eigenvecs_ab, eigenvecs_cb>>)
      ELSE regular_case(u_ab, u_cb, u_n, <<bond_len_ab, bond_len_bc>>,
                        <<eigenvals_ab, eigenvals_cb>>, <<eigenvecs_ab, eigenvecs_cb>>,
                        scalings)

(* ---------------------------------------------------------------------- *)
(* Inputs: the molecule and the configuration                              *)
(* ---------------------------------------------------------------------- *)

\* at most this many bonds and angles together in the lists handed over
MaxTerms == 2

\* molecule.molecule['qm']: [name, x, y, z] per atom.  Atoms 0..4 lie in the
\* plane x = y (0, 1, 4 on one line through atom 1), atom 5 lies off it,
\* atom 6 sits on top of atom 2, and atoms 7, 1, 8 lie on the line (1, 1, 4).
QmGeometry ==
  <<<<"C1", FP, FP, 0>>, <<"C2", 0, 0, 0>>, <<"H3", 0, 0, FP>>, <<"H4", FP, FP, FP>>,
    <<"N5", 0 - FP, 0 - FP, 0>>, <<"H6", FP, 0, 0>>, <<"H7", 0, 0, FP>>,
    <<"N8", FP, FP, 4 * FP>>, <<"N9", 0 - FP, 0 - FP, 0 - 4 * FP>>>>

\* the 1-based bonds and angles the lists are drawn from
BondChoices == {<<1, 2>>, <<2, 1>>, <<3, 7>>}

AngleChoices ==
  {<<1, 2, 3>>, <<1, 2, 4>>, <<1, 2, 5>>, <<6, 2, 3>>, <<2, 1, 4>>, <<8, 2, 9>>}

Range(l) == {l[k] : k \in 1..Len(l)}

\* the lists of n distinct elements of S
RECURSIVE ListsOf(_, _)
ListsOf(S, n) ==
  IF n = 0 THEN {<<>>}
  ELSE UNION {{Append(l, x) : x \in S \ Range(l)} : l \in ListsOf(S, n - 1)}

\* a 3N x 3N Hessian (rows and columns 0-based) of diagonal 3x3 blocks; the
\* asymmetric one has block (i, j) differ from block (j, i) below the diagonal
HessianMatrix(size_mol, asym) ==
  [r \in 0..(3 * size_mol - 1) |->
    [c \in 0..(3 * size_mol - 1) |->
      IF r % 3 # c % 3 THEN 0
      ELSE LET i == r \div 3
               j == c \div 3
           IN  0 - FP * (1 + ((i + j + (r % 3)) % 3))
               - (IF asym /\ i > j THEN FP \div 2 ELSE 0)]]

Hessians == {HessianMatrix(Len(QmGeometry), FALSE), HessianMatrix(Len(QmGeometry), TRUE)}

\* H[i][j] == H[j][i]
IsSymmetric(h) == \A r \in DOMAIN h : \A c \in DOMAIN h : h[r][c] = h[c][r]

\* qm['vib_scaling']
VibScalings == {957}

(* ---------------------------------------------------------------------- *)
(* State                                                                   *)
(* ---------------------------------------------------------------------- *)

VARIABLES
  pc,                   \* where modified_seminario_method stands
  molecule_qm,          \* molecule.molecule['qm']
  hessian,              \* molecule.hessian
  edges,                \* molecule.topology.edges (1-based pairs)
  angle_list,           \* molecule.angles (1-based triples)
  vib_scaling,          \* qm['vib_scaling']
  HarmonicBondForce,    \* molecule.HarmonicBondForce
  HarmonicAngleForce,   \* molecule.HarmonicAngleForce
  coords, bond_lens, eigenvals, eigenvecs,
  pos, k_b, bond_len_list, unique_values_bonds, bond_file,
  central_atoms_angles, unit_pa_all_angles, scaling_factor_all_angles,
  scaling_factors_angles_list,
  idx, k_theta, theta_0, unique_values_angles, angle_file,
  fca_calls,            \* history: every call of force_constant_angle
  err,                  \* the exception that ended the method, or "none"
  charges_engine,       \* qm['charges_engine']
  ddec_version,         \* qm['ddec_version']
  molecule_input,       \* molecule.molecule['input']: [element, x, y, z] per atom
  ddec_file,            \* the partition output: [element, charge, volume] per atom
  symm_hs,              \* molecule.symm_hs: per key, the atom sets to average
  xyz_sites,            \* lines[2:] of xyz_with_extra_point_charges.xyz
  ddec_data,            \* LennardJones.ddec_data
  non_bonded_force,     \* LennardJones.non_bonded_force
  sites,                \* molecule.sites
  lj_before,            \* history: ddec_data and non_bonded_force before the last step
  engine_mol,           \* engine_mol.molecule
  lines,                \* the lines of the output file of the QM engine
  opt_struct,           \* what optimised_structure returned
  log_file,             \* the warnings appended to engine_mol.log_file
  job_control           \* the charge type written to job_control.txt

inputs == <<molecule_qm, hessian, edges, angle_list, vib_scaling>>

caches == <<coords, bond_lens, eigenvals, eigenvecs>>

bond_locals == <<pos, k_b, bond_len_list, unique_values_bonds, bond_file>>

angle_setup == <<central_atoms_angles, unit_pa_all_angles, scaling_factor_all_angles,
                 scaling_factors_angles_list>>

angle_locals == <<idx, k_theta, theta_0, unique_values_angles, angle_file, fca_calls>>

lj_inputs == <<charges_engine, ddec_version, molecule_input, ddec_file, symm_hs, xyz_sites,
               log_file, job_control>>

lj_state == <<ddec_data, non_bonded_force, sites, lj_before>>

engine_vars == <<engine_mol, lines, opt_struct>>

\* what modified_seminario_method does not touch
other_vars == <<lj_inputs, lj_state, engine_vars>>

vars == <<pc, inputs, HarmonicBondForce, HarmonicAngleForce, caches, bond_locals,
          angle_setup, angle_locals, err, other_vars>>

\* numpy.zeros(n)
zeros(n) == [k \in 1..n |-> 0]

Init ==
  /\ pc = "start"
  /\ molecule_qm = QmGeometry
  /\ hessian \in Hessians
  /\ vib_scaling \in VibScalings
  /\ \E nb \in 0..MaxTerms : \E na \in 0..(MaxTerms - nb) :
       /\ edges \in ListsOf(BondChoices, nb)
       /\ angle_list \in ListsOf(AngleChoices, na)
  /\ HarmonicBondForce = <<>>
  /\ HarmonicAngleForce = <<>>
  /\ coords = <<>> /\ bond_lens = <<>> /\ eigenvals = <<>> /\ eigenvecs = <<>>
  /\ pos = 0 /\ k_b = <<>> /\ bond_len_list = <<>>
  /\ unique_values_bonds = <<>> /\ bond_file = <<>>
  /\ central_atoms_angles = <<>> /\ unit_pa_all_angles = <<>>
  /\ scaling_factor_all_angles = <<>>
  /\ scaling_factors_angles_list = [refs |-> <<>>, objs |-> <<>>]
  /\ idx = 0 /\ k_theta = <<>> /\ theta_0 = <<>>
  /\ unique_values_angles = <<>> /\ angle_file = <<>>
  /\ fca_calls = <<>>
  /\ err = "none"
  /\ charges_engine = "" /\ ddec_version = 0 /\ molecule_input = <<>> /\ ddec_file = <<>>
  /\ symm_hs = <<>> /\ xyz_sites = <<>>
  /\ ddec_data = <<>> /\ non_bonded_force = <<>> /\ sites = <<>> /\ lj_before = <<>>
  /\ log_file = <<>> /\ job_control = <<>>
  /\ engine_mol = <<>> /\ lines = <<>> /\ opt_struct = <<>>

(* ---------------------------------------------------------------------- *)
(* modified_seminario_method: the one-time setup                           *)
(* ---------------------------------------------------------------------- *)

\* hessian[(i * 3):((i + 1) * 3), (j * 3):((j + 1) * 3)] as 3 rows
partial_hessian(h, i, j) ==
  [r \in 1..3 |-> [c \in 1..3 |-> h[3 * i + r - 1][3 * j + c - 1]]]

\* numpy.linalg.eig of a diagonal 3x3 block: the diagonal, in order
eig_values(block) == <<block[1][1], block[2][2], block[3][3]>>

\* numpy.linalg.eig of a diagonal 3x3 block: the unit vectors as columns
eig_vectors(block) == <<<<FP, 0, 0>>, <<0, FP, 0>>, <<0, 0, FP>>>>

\* reshape(coords, (size_mol, 3)), atoms 0-based
reshape_coords(qm) ==
  [i \in 0..(Len(qm) - 1) |-> <<qm[i + 1][2], qm[i + 1][3], qm[i + 1][4]>>]

Setup ==
  /\ pc = "start"
  /\ LET size_mol == Len(molecule_qm)
         c == reshape_coords(molecule_qm)
     IN  /\ coords' = c
         /\ bond_lens' = [i \in 0..(size_mol - 1) |-> [j \in 0..(size_mol - 1) |->
                            norm(VSub(c[i], c[j]))]]
         /\ eigenvals' = [i \in 0..(size_mol - 1) |-> [j \in 0..(size_mol - 1) |->
                            eig_values(partial_hessian(hessian, i, j))]]
         /\ eigenvecs' = [i \in 0..(size_mol - 1) |-> [j \in 0..(size_mol - 1) |->
                            eig_vectors(partial_hessian(hessian, i, j))]]
  /\ pc' = "calculate_bonds"
  /\ UNCHANGED <<other_vars, inputs, HarmonicBondForce, HarmonicAngleForce, bond_locals,
                 angle_setup, angle_locals, err>>

(* ---------------------------------------------------------------------- *)
(* calculate_bonds                                                         *)
(* ---------------------------------------------------------------------- *)

\* kcal/mol/A^2 -> kJ/mol/nm^2, 418.4
conversion == 418400

\* str(x) of a float
Str(x) == <<"str", x>>

\* f'{x:.3f}': three decimals, the resolution of the number model
Fmt3(x) == <<"%.3f", x>>

\* d[k] = v on a dict
DictSet(d, k, v) == [x \in (DOMAIN d) \cup {k} |-> IF x = k THEN v ELSE d[x]]

\* (x + y) / 2
Mean2(x, y) == FDiv(FAdd(x, y), 2 * FP)

\* a k_b[pos] taken from the order (a, b) of the bond alone
bond_k_one_order(bond, evals, evecs, crds, vib) ==
  FMul(force_constant_bond(bond[1] - 1, bond[2] - 1, evals, evecs, crds), FMul(vib, vib))

\* k_b[pos]: the mean over both orders of the bond, times vib_scaling ** 2
bond_k(bond, evals, evecs, crds, vib) ==
  LET ab == force_constant_bond(bond[1] - 1, bond[2] - 1, evals, evecs, crds)
      ba == force_constant_bond(bond[2] - 1, bond[1] - 1, evals, evecs, crds)
  IN  FMul(Mean2(ab, ba), FMul(vib, vib))

\* an opening of calculate_bonds that clears the bond-length matrix as well
CalculateBondsOpenClearing ==
  /\ pc = "calculate_bonds"
  /\ k_b' = zeros(Len(edges))
  /\ bond_len_list' = zeros(Len(edges))
  /\ unique_values_bonds' = <<>>
  /\ bond_file' = <<>>
  /\ pos' = 0
  /\ pc' = "bond_loop"
  /\ bond_lens' = [i \in DOMAIN bond_lens |-> [j \in DOMAIN bond_lens |-> 0]]
  /\ UNCHANGED <<other_vars, inputs, HarmonicBondForce, HarmonicAngleForce, coords, eigenvals, eigenvecs,
                 angle_setup, angle_locals, err>>

CalculateBondsOpen ==
  /\ pc = "calculate_bonds"
  /\ k_b' = zeros(Len(edges))
  /\ bond_len_list' = zeros(Len(edges))
  /\ unique_values_bonds' = <<>>
  /\ bond_file' = <<>>
  /\ pos' = 0
  /\ pc' = "bond_loop"
  /\ UNCHANGED <<other_vars, inputs, HarmonicBondForce, HarmonicAngleForce, caches,
                 angle_setup, angle_locals, err>>

BondStep ==
  /\ pc = "bond_loop"
  /\ pos < Len(edges)
  /\ LET bond == edges[pos + 1]
         k    == bond_k(bond, eigenvals, eigenvecs, coords, vib_scaling)
         len  == bond_lens[bond[1] - 1][bond[2] - 1]
         name_a == molecule_qm[bond[1]][1]
         name_b == molecule_qm[bond[2]][1]
     IN  /\ k_b' = [k_b EXCEPT ![pos + 1] = k]
         /\ bond_len_list' = [bond_len_list EXCEPT ![pos + 1] = len]
         /\ bond_file' = Append(bond_file,
                                <<name_a, name_b, Fmt3(k), Fmt3(len), bond[1], bond[2]>>)
         /\ HarmonicBondForce' =
              DictSet(HarmonicBondForce, <<bond[1] - 1, bond[2] - 1>>,
                      <<Str(FDiv(len, 10 * FP)), Str(FMul(conversion, k))>>)
         /\ unique_values_bonds' = Append(unique_values_bonds, <<name_a, name_b, k, len, 1>>)
  /\ pos' = pos + 1
  /\ UNCHANGED <<other_vars, pc, inputs, HarmonicAngleForce, caches, angle_setup, angle_locals, err>>

CalculateBondsReturn ==
  /\ pc = "bond_loop"
  /\ pos = Len(edges)
  /\ pc' = "calculate_angles"
  /\ UNCHANGED <<other_vars, inputs, HarmonicBondForce, HarmonicAngleForce, caches, bond_locals,
                 angle_setup, angle_locals, err>>

(* ---------------------------------------------------------------------- *)
(* calculate_angles: connectivity and scaling factors                      *)
(* ---------------------------------------------------------------------- *)

\* the [a, c, count] and [c, a, count] rows of the angles whose central atom is coord,
\* in the order of the angle list, from (1-based) list position p on
RECURSIVE rows_of_central_one_way(_, _, _)
\* the rows of central atom coord, were only [a, c, count] written for an angle
rows_of_central_one_way(coord, angles, p) ==
  IF p > Len(angles) THEN <<>>
  ELSE LET angle == angles[p]
           rest  == rows_of_central_one_way(coord, angles, p + 1)
       IN  IF coord = angle[2] - 1
           THEN <<<<angle[1] - 1, angle[3] - 1, p - 1>>>> \o rest
           ELSE rest

RECURSIVE rows_of_central(_, _, _)
rows_of_central(coord, angles, p) ==
  IF p > Len(angles) THEN <<>>
  ELSE LET angle == angles[p]
           rest  == rows_of_central(coord, angles, p + 1)
       IN  IF coord = angle[2] - 1
           THEN <<<<angle[1] - 1, angle[3] - 1, p - 1>>,
                  <<angle[3] - 1, angle[1] - 1, p - 1>>>> \o rest
           ELSE rest

\* row inserted after the rows of srt whose key is not larger (srt sorted)
RECURSIVE insert_row(_, _)
insert_row(row, srt) ==
  IF srt = <<>> THEN <<row>>
  ELSE IF row[1] < srt[1][1] THEN <<row>> \o srt
  ELSE <<srt[1]>> \o insert_row(row, Tail(srt))

\* the rows left in the order of the angle list
rows_unsorted(rows) == rows

\* sorted(rows, key=itemgetter(0)): stable
RECURSIVE sorted_by_first(_)
sorted_by_first(rows) ==
  IF rows = <<>> THEN <<>>
  ELSE insert_row(rows[Len(rows)], sorted_by_first(SubSeq(rows, 1, Len(rows) - 1)))

GroupAngles ==
  /\ pc = "calculate_angles"
  /\ k_theta' = zeros(Len(angle_list))
  /\ theta_0' = zeros(Len(angle_list))
  /\ central_atoms_angles' =
       [coord \in DOMAIN coords |-> sorted_by_first(rows_of_central(coord, angle_list, 1))]
  /\ pc' = "find_u_pa"
  /\ UNCHANGED <<other_vars, inputs, HarmonicBondForce, HarmonicAngleForce, caches, bond_locals,
                 unit_pa_all_angles, scaling_factor_all_angles, scaling_factors_angles_list,
                 idx, unique_values_angles, angle_file, fca_calls, err>>

FindUPa ==
  /\ pc = "find_u_pa"
  /\ unit_pa_all_angles' =
       [i \in DOMAIN central_atoms_angles |->
         [j \in 1..Len(central_atoms_angles[i]) |->
           u_pa_from_angles(central_atoms_angles[i][j][1], i,
                            central_atoms_angles[i][j][2], coords)]]
  /\ pc' = "scaling_factors"
  /\ UNCHANGED <<other_vars, inputs, HarmonicBondForce, HarmonicAngleForce, caches, bond_locals,
                 central_atoms_angles, scaling_factor_all_angles,
                 scaling_factors_angles_list, angle_locals, err>>

\* the forward while loop of row j (0-based): n and extra_contribs when it ends
RECURSIVE forward_scan(_, _, _, _, _)
forward_scan(rows, u_pas, j, n, extra_contribs) ==
  IF (j + n) < Len(rows) /\ rows[j + 1][1] = rows[j + n + 1][1]
  THEN LET d == FAbs(dot(u_pas[j + 1], u_pas[j + n + 1]))
       IN  forward_scan(rows, u_pas, j, n + 1, FAdd(extra_contribs, FMul(d, d)))
  ELSE [n |-> n, extra_contribs |-> extra_contribs]

\* the backward while loop of row j (0-based): m and extra_contribs when it ends
RECURSIVE backward_scan(_, _, _, _, _)
backward_scan(rows, u_pas, j, m, extra_contribs) ==
  IF (j - m) >= 0 /\ rows[j + 1][1] = rows[j - m + 1][1]
  THEN LET d == FAbs(dot(u_pas[j + 1], u_pas[j - m + 1]))
       IN  backward_scan(rows, u_pas, j, m + 1, FAdd(extra_contribs, FMul(d, d)))
  ELSE [m |-> m, extra_contribs |-> extra_contribs]

\* scaling_factor_all_angles[i][j] = [factor, position in the angle list]
scaling_row(rows, u_pas, j) ==
  LET fwd == forward_scan(rows, u_pas, j, 1, 0)
      bwd == backward_scan(rows, u_pas, j, 1, fwd.extra_contribs)
      n == fwd.n
      m == bwd.m
  IN  <<IF n # 1 \/ m # 1
        THEN FAdd(FP, FDiv(bwd.extra_contribs, (m + n - 2) * FP))
        ELSE FP,
        rows[j + 1][3]>>

ScalingFactors ==
  /\ pc = "scaling_factors"
  /\ scaling_factor_all_angles' =
       [i \in DOMAIN central_atoms_angles |->
         [j \in 1..Len(central_atoms_angles[i]) |->
           scaling_row(central_atoms_angles[i], unit_pa_all_angles[i], j - 1)]]
  /\ pc' = "order_scalings"
  /\ UNCHANGED <<other_vars, inputs, HarmonicBondForce, HarmonicAngleForce, caches, bond_locals,
                 central_atoms_angles, unit_pa_all_angles, scaling_factors_angles_list,
                 angle_locals, err>>

\* [[]] * n: n references to one and the same list object
list_repeat(n) == [refs |-> [k \in 1..n |-> 1], objs |-> <<<<>>>>]

\* lst[k].append(v), k 0-based
list_append(lst, k, v) ==
  [lst EXCEPT !.objs[lst.refs[k + 1]] = Append(@, v)]

\* lst[k], k 0-based
list_get(lst, k) == lst.objs[lst.refs[k + 1]]

\* the rows of all central atoms from atom i on, in the order of the two for loops
RECURSIVE rows_in_order(_, _)
rows_in_order(sfa, i) ==
  IF i \notin DOMAIN sfa THEN <<>> ELSE sfa[i] \o rows_in_order(sfa, i + 1)

RECURSIVE append_scalings(_, _, _)
append_scalings(lst, rows, p) ==
  IF p > Len(rows) THEN lst
  ELSE append_scalings(list_append(lst, rows[p][2], rows[p][1]), rows, p + 1)

OrderScalings ==
  /\ pc = "order_scalings"
  /\ scaling_factors_angles_list' =
       append_scalings(list_repeat(Len(angle_list)),
                       rows_in_order(scaling_factor_all_angles, 0), 1)
  /\ unique_values_angles' = <<>>
  /\ angle_file' = <<>>
  /\ idx' = 0
  /\ pc' = "angle_loop"
  /\ UNCHANGED <<other_vars, inputs, HarmonicBondForce, HarmonicAngleForce, caches, bond_locals,
                 central_atoms_angles, unit_pa_all_angles, scaling_factor_all_angles,
                 k_theta, theta_0, fca_calls, err>>

(* ---------------------------------------------------------------------- *)
(* calculate_angles: the loop over the angle list                          *)
(* ---------------------------------------------------------------------- *)

\* scalings = [scaling_factors_angles_list[i][0], scaling_factors_angles_list[i][1]]
scalings_of(lst, i) == <<list_get(lst, i)[1], list_get(lst, i)[2]>>

\* angles[::-1] and scalings[::-1]
Reversed(l) == [k \in 1..Len(l) |-> l[Len(l) + 1 - k]]

\* k_theta[i]
angle_k(ab_k_theta, ba_k_theta, vib) == FMul(FMul(vib, vib), Mean2(ab_k_theta, ba_k_theta))

\* theta_0[i]
angle_theta(ab_theta_0, ba_theta_0) == Mean2(ab_theta_0, ba_theta_0)

CallRecord(i, angles, scalings, res) ==
  [angle |-> i, atoms |-> angles, scalings |-> scalings, branch |-> res.branch,
   samples |-> res.samples, k_theta |-> res.k_theta, theta_0 |-> res.theta_0,
   raised |-> res.raised]

\* force_constant_angle(a, b, c, ...) ends in the exception of acos (lines 103, 131)
fca_raises(atom_a, atom_b, atom_c, crds) ==
  acos_raises(dot(vector_along_bond(crds, atom_a, atom_b),
                  vector_along_bond(crds, atom_c, atom_b)))

\* one pass of the loop that runs to its end
AngleStep ==
  /\ pc = "angle_loop"
  /\ idx < Len(angle_list)
  /\ ~fca_raises(angle_list[idx + 1][1] - 1, angle_list[idx + 1][2] - 1,
                 angle_list[idx + 1][3] - 1, coords)
  /\ ~fca_raises(angle_list[idx + 1][3] - 1, angle_list[idx + 1][2] - 1,
                 angle_list[idx + 1][1] - 1, coords)
  /\ LET angle    == angle_list[idx + 1]
         angles   == <<angle[1] - 1, angle[2] - 1, angle[3] - 1>>
         scalings == scalings_of(scaling_factors_angles_list, idx)
         names    == <<molecule_qm[angle[1]][1], molecule_qm[angle[2]][1],
                       molecule_qm[angle[3]][1]>>
     IN  \E ab \in {force_constant_angle(angles[1], angles[2], angles[3], bond_lens,
                                         eigenvals, eigenvecs, coords, scalings)} :
         \E ba \in {force_constant_angle(angles[3], angles[2], angles[1], bond_lens,
                                         eigenvals, eigenvecs, coords, Reversed(scalings))} :
         \E k \in {angle_k(ab.k_theta, ba.k_theta, vib_scaling)} :
         \E t \in {angle_theta(ab.theta_0, ba.theta_0)} :
           /\ k_theta' = [k_theta EXCEPT ![idx + 1] = k]
           /\ theta_0' = [theta_0 EXCEPT ![idx + 1] = t]
           /\ angle_file' = Append(angle_file,
                                   <<idx, names, Fmt3(k), Fmt3(t), angle[1], angle[2], angle[3]>>)
           /\ unique_values_angles' = Append(unique_values_angles, names \o <<k, t, 1>>)
           /\ fca_calls' = fca_calls \o
                             <<CallRecord(idx, angles, scalings, ab),
                               CallRecord(idx, Reversed(angles), Reversed(scalings), ba)>>
  /\ idx' = idx + 1
  /\ UNCHANGED <<other_vars, pc, inputs, HarmonicBondForce, HarmonicAngleForce, caches, bond_locals,
                 angle_setup, err>>

\* one pass of the loop that an exception of force_constant_angle ends: the
\* exception leaves calculate_angles and modified_seminario_method
AngleStepRaises ==
  /\ pc = "angle_loop"
  /\ idx < Len(angle_list)
  /\ LET angle    == angle_list[idx + 1]
         angles   == <<angle[1] - 1, angle[2] - 1, angle[3] - 1>>
         scalings == scalings_of(scaling_factors_angles_list, idx)
     IN  /\ \/ fca_raises(angles[1], angles[2], angles[3], coords)
            \/ fca_raises(angles[3], angles[2], angles[1], coords)
         /\ \E ab \in {force_constant_angle(angles[1], angles[2], angles[3], bond_lens,
                                            eigenvals, eigenvecs, coords, scalings)} :
              IF ab.raised
              THEN fca_calls' = Append(fca_calls, CallRecord(idx, angles, scalings, ab))
              ELSE \E ba \in {force_constant_angle(angles[3], angles[2], angles[1],
                                                   bond_lens, eigenvals, eigenvecs, coords,
                                                   Reversed(scalings))} :
                     fca_calls' = fca_calls \o
                                    <<CallRecord(idx, angles, scalings, ab),
                                      CallRecord(idx, Reversed(angles), Reversed(scalings),
                                                 ba)>>
  /\ err' = "ValueError"
  /\ pc' = "raised"
  /\ UNCHANGED <<other_vars, inputs, HarmonicBondForce, HarmonicAngleForce, caches, bond_locals,
                 angle_setup, idx, k_theta, theta_0, unique_values_angles, angle_file>>

CalculateAnglesReturn ==
  /\ pc = "angle_loop"
  /\ idx = Len(angle_list)
  /\ pc' = "done"
  /\ UNCHANGED <<other_vars, inputs, HarmonicBondForce, HarmonicAngleForce, caches, bond_locals,
                 angle_setup, angle_locals, err>>

Next ==
  \/ Setup
  \/ CalculateBondsOpen
  \/ BondStep
  \/ CalculateBondsReturn
  \/ GroupAngles
  \/ FindUPa
  \/ ScalingFactors
  \/ OrderScalings
  \/ AngleStep
  \/ AngleStepRaises
  \/ CalculateAnglesReturn

Spec == Init /\ [][Next]_vars

(* ---------------------------------------------------------------------- *)
(* The same method over eigenvectors of either sign                        *)
(* ---------------------------------------------------------------------- *)

\* numpy.linalg.eig fixes an eigenvector only up to its sign: the columns (1-based)
\* negated, and the blocks (i, j) in which they are negated
FlipChoices ==
  {[cols |-> c, blocks |-> b] :
     c \in {{}, {1}, {2}, {3}, {1, 2, 3}}, b \in {"all", "upper", "lower"}}

\* the 3x3 matrix vecs with the columns in cols negated
NegateColumns(vecs, cols) ==
  [r \in 1..3 |-> [c \in 1..3 |-> IF c \in cols THEN 0 - vecs[r][c] ELSE vecs[r][c]]]

\* the eigenvectors of block (i, j) under the choice f
eig_vectors_signed(block, i, j, f) ==
  IF \/ f.blocks = "all"
     \/ f.blocks = "upper" /\ i < j
     \/ f.blocks = "lower" /\ i > j
  THEN NegateColumns(eig_vectors(block), f.cols)
  ELSE eig_vectors(block)

\* one bond or one angle is handed over
SignInit == Init /\ Len(edges) + Len(angle_list) = 1

SetupSigned ==
  /\ pc = "start"
  /\ \E f \in FlipChoices :
       LET size_mol == Len(molecule_qm)
           c == reshape_coords(molecule_qm)
       IN  /\ coords' = c
           /\ bond_lens' = [i \in 0..(size_mol - 1) |-> [j \in 0..(size_mol - 1) |->
                              norm(VSub(c[i], c[j]))]]
           /\ eigenvals' = [i \in 0..(size_mol - 1) |-> [j \in 0..(size_mol - 1) |->
                              eig_values(partial_hessian(hessian, i, j))]]
           /\ eigenvecs' = [i \in 0..(size_mol - 1) |-> [j \in 0..(size_mol - 1) |->
                              eig_vectors_signed(partial_hessian(hessian, i, j), i, j, f)]]
  /\ pc' = "calculate_bonds"
  /\ UNCHANGED <<other_vars, inputs, HarmonicBondForce, HarmonicAngleForce, bond_locals,
                 angle_setup, angle_locals, err>>

SignNext ==
  \/ SetupSigned
  \/ CalculateBondsOpen
  \/ BondStep
  \/ CalculateBondsReturn
  \/ GroupAngles
  \/ FindUPa
  \/ ScalingFactors
  \/ OrderScalings
  \/ AngleStep
  \/ AngleStepRaises
  \/ CalculateAnglesReturn

SignSpec == SignInit /\ [][SignNext]_vars

(* ---------------------------------------------------------------------- *)
(* class LennardJones (QUBEKit/lennard_jones.py): inputs                   *)
(* ---------------------------------------------------------------------- *)

\* the elements of the atoms: all known to append_ais_bis, silicon first, or silicon
\* in the place of hydrogen 4
LjElements ==
  {<<"C", "O", "H", "H", "N">>, <<"Si", "O", "H", "H", "N">>, <<"C", "O", "H", "Si", "N">>}

\* molecule.molecule['input'] and molecule.molecule['qm'] of the elements elems
LjGeometry(elems) ==
  <<<<elems[1], 0, 0, 0>>, <<elems[2], FP, 0, 0>>, <<elems[3], FP, FP, 0>>,
    <<elems[4], 0 - FP, 0, 0>>, <<elems[5], 0, FP, FP>>>>

\* molecule.topology.edges: hydrogen 3 on the oxygen, listed either way round;
\* hydrogen 3 between the oxygen and the nitrogen; hydrogens 3 and 4 both on the
\* oxygen; hydrogen 4 on the nitrogen
LjEdgeChoices ==
  {<<<<1, 2>>, <<2, 3>>, <<1, 4>>, <<1, 5>>>>,
   <<<<2, 1>>, <<3, 2>>, <<4, 1>>, <<5, 1>>>>,
   <<<<1, 2>>, <<2, 3>>, <<3, 5>>, <<1, 4>>>>,
   <<<<1, 2>>, <<2, 3>>, <<4, 2>>, <<1, 5>>>>,
   <<<<1, 2>>, <<3, 2>>, <<5, 4>>, <<1, 5>>>>}

\* the AIM charges of the five atoms
LjCharges == <<200, 0 - 600, 400, 100, 0 - 100>>

\* the AIM volumes of the five atoms: none zero, hydrogen 3 zero, the oxygen zero
LjVolumeChoices ==
  {<<17200, 11050, 3800, 7600, 12950>>,
   <<17200, 11050, 0, 7600, 12950>>,
   <<17200, 0, 3800, 7600, 12950>>}

\* molecule.symm_hs: the atom sets of each key, in the order of the dict
SymmChoices ==
  {<<>>,
   <<<<<<3, 4>>>>>>,
   <<<<<<3, 4>>, <<2, 5>>>>>>,
   <<<<<<3, 4>>>>, <<<<2, 5>>>>>>}

\* a line of an atom and a line of a virtual site of the xyz file
AtomLine(atom) == <<atom[1], atom[2], atom[3], atom[4]>>

SiteLine(x, y, z, charge) == <<"X", x, y, z, charge>>

\* lines[2:] of xyz_with_extra_point_charges.xyz: no site; one on the nitrogen; one on
\* the oxygen and one on the nitrogen; two on the nitrogen; two on atom 1; one on
\* hydrogen 4 and two on the nitrogen
SiteFiles(g) ==
  {<<AtomLine(g[1]), AtomLine(g[2]), AtomLine(g[3]), AtomLine(g[4]), AtomLine(g[5])>>,
   <<AtomLine(g[1]), AtomLine(g[2]), AtomLine(g[3]), AtomLine(g[4]), AtomLine(g[5]),
     SiteLine(0, FP, 2 * FP, 0 - 150)>>,
   <<AtomLine(g[1]), AtomLine(g[2]), SiteLine(2 * FP, 0, FP, 0 - 250), AtomLine(g[3]),
     AtomLine(g[4]), AtomLine(g[5]), SiteLine(0, FP, 2 * FP, 0 - 150)>>,
   <<AtomLine(g[1]), AtomLine(g[2]), AtomLine(g[3]), AtomLine(g[4]), AtomLine(g[5]),
     SiteLine(0, FP, 2 * FP, 0 - 150), SiteLine(FP, FP, 2 * FP, 0 - 50)>>,
   <<AtomLine(g[1]), SiteLine(0, 0, FP, 0 - 150), SiteLine(0, 0, 0 - FP, 0 - 50),
     AtomLine(g[2]), AtomLine(g[3]), AtomLine(g[4]), AtomLine(g[5])>>,
   <<AtomLine(g[1]), AtomLine(g[2]), AtomLine(g[3]), AtomLine(g[4]),
     SiteLine(0 - FP, 0, FP, 50), AtomLine(g[5]), SiteLine(0, FP, 2 * FP, 0 - 150),
     SiteLine(FP, FP, 2 * FP, 0 - 50)>>}

\* the file without a site, the one an engine other than ONETEP leaves behind
NoSiteFile(g) ==
  <<AtomLine(g[1]), AtomLine(g[2]), AtomLine(g[3]), AtomLine(g[4]), AtomLine(g[5])>>

\* qm['charges_engine'] and qm['ddec_version']
EngineChoices == {"chargemol", "onetep", "psi4"}

DdecVersions == {3, 6, 5}

\* the variables of the other classes, as a new molecule has them
MsmIdle ==
  /\ hessian = <<>> /\ angle_list = <<>> /\ vib_scaling = 0
  /\ HarmonicBondForce = <<>> /\ HarmonicAngleForce = <<>>
  /\ coords = <<>> /\ bond_lens = <<>> /\ eigenvals = <<>> /\ eigenvecs = <<>>
  /\ pos = 0 /\ k_b = <<>> /\ bond_len_list = <<>>
  /\ unique_values_bonds = <<>> /\ bond_file = <<>>
  /\ central_atoms_angles = <<>> /\ unit_pa_all_angles = <<>>
  /\ scaling_factor_all_angles = <<>>
  /\ scaling_factors_angles_list = [refs |-> <<>>, objs |-> <<>>]
  /\ idx = 0 /\ k_theta = <<>> /\ theta_0 = <<>>
  /\ unique_values_angles = <<>> /\ angle_file = <<>>
  /\ fca_calls = <<>>

msm_vars == <<hessian, angle_list, vib_scaling, HarmonicBondForce, HarmonicAngleForce,
              caches, bond_locals, angle_setup, angle_locals>>

\* LennardJones.__init__
LjInit ==
  /\ pc = "lj_start"
  /\ err = "none"
  /\ MsmIdle
  /\ engine_mol = <<>> /\ lines = <<>> /\ opt_struct = <<>>
  /\ charges_engine \in EngineChoices
  /\ \E elems \in LjElements :
       /\ molecule_input = LjGeometry(elems)
       /\ molecule_qm = LjGeometry(elems)
       /\ xyz_sites \in IF charges_engine = "onetep"
                         THEN SiteFiles(LjGeometry(elems))
                         ELSE {NoSiteFile(LjGeometry(elems))}
       /\ \E vols \in LjVolumeChoices :
            ddec_file = [k \in 1..Len(elems) |-> <<elems[k], LjCharges[k], vols[k]>>]
  /\ edges \in LjEdgeChoices
  /\ symm_hs \in SymmChoices
  /\ ddec_version \in IF charges_engine = "chargemol" THEN DdecVersions ELSE {6}
  /\ ddec_data = <<>>
  /\ non_bonded_force = <<>>
  /\ sites = <<>>
  /\ lj_before = <<>>
  /\ log_file = <<>>
  /\ job_control = <<>>

(* ---------------------------------------------------------------------- *)
(* LennardJones: extraction, a_i and b_i, sigma and epsilon                *)
(* ---------------------------------------------------------------------- *)

\* Sigma: Angs -> nm, 0.1
sigma_conversion == 100

\* Epsilon: (Ha * (Bohr ** 6)) / (Angs ** 6) -> kJ / mol, 57.65240039
epsilon_conversion == 57652

\* atom[-1], atom[-2], atom[-3] of a row of ddec_data
Last(atom) == atom[Len(atom)]

Last2(atom) == atom[Len(atom) - 1]

Last3(atom) == atom[Len(atom) - 2]

\* the snapshot kept in lj_before
Snapshot == [ddec_data |-> ddec_data, non_bonded_force |-> non_bonded_force]

\* the branch of calculate_non_bonded_force an engine name falls into, were every
\* name taken for chargemol
engine_branch_lenient(engine) == IF engine = "onetep" THEN "onetep" ELSE "chargemol"

\* the branch of calculate_non_bonded_force an engine name falls into (lines 363-370)
engine_branch(engine) ==
  IF engine = "chargemol" THEN "chargemol"
  ELSE IF engine = "onetep" THEN "onetep"
  ELSE "invalid"

\* rows [atom number, atom type, x, y, z, charge, x dipole, y dipole, z dipole, vol]
extract_params_chargemol(input, file) ==
  [p \in 1..Len(file) |->
     <<p, file[p][1], input[p][2], input[p][3], input[p][4], file[p][2], 0, 0, 0,
       file[p][3]>>]

\* rows [atom number, atom type, x, y, z, charge, vol]
extract_params_onetep(input, file) ==
  [p \in 1..Len(input) |->
     <<p, input[p][1], input[p][2], input[p][3], input[p][4], file[p][2], file[p][3]>>]

\* the first step of calculate_non_bonded_force: the parameters are read, or the
\* engine or the DDEC version is refused
ExtractParams ==
  /\ pc = "lj_start"
  /\ lj_before' = Snapshot
  /\ IF engine_branch(charges_engine) = "chargemol"
     THEN IF ddec_version \in {3, 6}
          THEN /\ ddec_data' = extract_params_chargemol(molecule_input, ddec_file)
               /\ pc' = "append_ais_bis"
               /\ err' = "none"
          ELSE /\ err' = "ValueError"
               /\ pc' = "raised"
               /\ UNCHANGED ddec_data
     ELSE IF engine_branch(charges_engine) = "onetep"
          THEN /\ ddec_data' = extract_params_onetep(molecule_input, ddec_file)
               /\ pc' = "append_ais_bis"
               /\ err' = "none"
          ELSE /\ err' = "KeyError"
               /\ pc' = "raised"
               /\ UNCHANGED ddec_data
  /\ UNCHANGED <<inputs, msm_vars, lj_inputs, non_bonded_force, sites, engine_vars>>

\* elem_dict with the constants of carbon for every element it does not hold
elem_dict_defaulting(elem) ==
  IF elem = "H" THEN <<7600, 6500, 1640>>
  ELSE IF elem = "N" THEN <<25900, 24200, 1720>>
  ELSE IF elem = "O" THEN <<22100, 15600, 1600>>
  ELSE <<34400, 46600, 2080>>

\* elem_dict[elem]: [vfree, bfree, rfree]; << >> stands for the KeyError of a key
\* the dict does not hold
elem_dict(elem) ==
  CASE elem = "H"  -> <<7600, 6500, 1640>>
    [] elem = "C"  -> <<34400, 46600, 2080>>
    [] elem = "N"  -> <<25900, 24200, 1720>>
    [] elem = "O"  -> <<22100, 15600, 1600>>
    [] elem = "F"  -> <<18200, 9500, 1580>>
    [] elem = "S"  -> <<75200, 134000, 2000>>
    [] elem = "Cl" -> <<65100, 94600, 1880>>
    [] elem = "Br" -> <<95700, 162000, 1960>>
    [] OTHER       -> <<>>

\* the lookup of the element of the row raises KeyError
raises_KeyError(atom) == elem_dict(atom[2]) = <<>>

\* the row with r_aim, b_i and a_i appended (lines 157-164)
ais_bis_row(atom) ==
  LET vfree == elem_dict(atom[2])[1]
      bfree == elem_dict(atom[2])[2]
      rfree == elem_dict(atom[2])[3]
      r_aim == FMul(rfree, FCbrt(FDiv(Last(atom), vfree)))
      b_i   == FMul(bfree, FSquare(FDiv(Last(atom), vfree)))
      a_i   == FMul(FMul(32 * FP, b_i), FPow6(r_aim))
  IN  atom \o <<r_aim, b_i, a_i>>

\* the position (1-based) of the first row from p on whose element raises, 0 if none
RECURSIVE first_raising(_, _)
first_raising(data, p) ==
  IF p > Len(data) THEN 0
  ELSE IF raises_KeyError(data[p]) THEN p
  ELSE first_raising(data, p + 1)

AppendAisBis ==
  /\ pc = "append_ais_bis"
  /\ lj_before' = Snapshot
  /\ LET stop == first_raising(ddec_data, 1)
     IN  IF stop = 0
         THEN /\ ddec_data' = [p \in 1..Len(ddec_data) |-> ais_bis_row(ddec_data[p])]
              /\ pc' = "calculate_sig_eps"
              /\ err' = "none"
         ELSE /\ ddec_data' = [p \in 1..Len(ddec_data) |->
                                IF p < stop THEN ais_bis_row(ddec_data[p]) ELSE ddec_data[p]]
              /\ pc' = "raised"
              /\ err' = "KeyError"
  /\ UNCHANGED <<inputs, msm_vars, lj_inputs, non_bonded_force, sites, engine_vars>>

\* a test of line 179 that never holds
never_zero(atom) == FALSE

\* the test of line 179: atom[-1] == 0
a_i_is_zero(atom) == Last(atom) = 0

\* the division of line 184 raises ZeroDivisionError
sig_eps_raises(atom) == ~a_i_is_zero(atom) /\ Last2(atom) = 0

\* sigma of a row (lines 179-185)
sigma_of(atom) ==
  IF a_i_is_zero(atom) THEN 0
  ELSE FMul(FSixthRoot(FDiv(Last(atom), Last2(atom))), sigma_conversion)

\* epsilon = (b_i ** 2) / (4 * a_i) * epsilon_conversion
epsilon_formula(atom) ==
  FMul(FDiv(FSquare(Last2(atom)), FMul(4 * FP, Last(atom))), epsilon_conversion)

\* epsilon of a row (lines 179-189)
epsilon_of(atom) == IF a_i_is_zero(atom) THEN 0 ELSE epsilon_formula(atom)

\* the position (1-based) of the first row from p on whose sigma raises, 0 if none
RECURSIVE first_dividing_by_zero(_, _)
first_dividing_by_zero(data, p) ==
  IF p > Len(data) THEN 0
  ELSE IF sig_eps_raises(data[p]) THEN p
  ELSE first_dividing_by_zero(data, p + 1)

CalculateSigEps ==
  /\ pc = "calculate_sig_eps"
  /\ lj_before' = Snapshot
  /\ LET stop == first_dividing_by_zero(ddec_data, 1)
         n    == IF stop = 0 THEN Len(ddec_data) ELSE stop - 1
     IN  /\ non_bonded_force' =
              [k \in 0..(n - 1) |->
                 <<Str(ddec_data[k + 1][6]), Str(sigma_of(ddec_data[k + 1])),
                   Str(epsilon_of(ddec_data[k + 1]))>>]
         /\ pc' = IF stop = 0 THEN "correct_polar_hydrogens" ELSE "raised"
         /\ err' = IF stop = 0 THEN "none" ELSE "ZeroDivisionError"
  /\ UNCHANGED <<inputs, msm_vars, lj_inputs, ddec_data, sites, engine_vars>>

(* ---------------------------------------------------------------------- *)
(* LennardJones: polar hydrogens                                           *)
(* ---------------------------------------------------------------------- *)

\* the characters of an element symbol, for the tests `'O' in pair[0]`
letters(elem) ==
  CASE elem = "Si" -> {"S", "i"}
    [] elem = "Cl" -> {"C", "l"}
    [] elem = "Br" -> {"B", "r"}
    [] OTHER       -> {elem}

\* list.index(atom) + 1
first_index(input, atom) ==
  CHOOSE p \in 1..Len(input) :
    input[p] = atom /\ \A q \in 1..(p - 1) : input[q] # atom

\* positions = {index + 1: element} (line 202)
positions(input) ==
  [k \in {first_index(input, input[p]) : p \in 1..Len(input)} |-> input[k][1]]

\* new_pairs: str(number) + element is kept as the pair <<number, element>>
new_pairs(topology_edges, input) ==
  [p \in 1..Len(topology_edges) |->
     <<<<topology_edges[p][1], positions(input)[topology_edges[p][1]]>>,
       <<topology_edges[p][2], positions(input)[topology_edges[p][2]]>>>>]

\* 'O' in label or 'N' in label or 'S' in label
has_son(label) == letters(label[2]) \cap {"O", "N", "S"} # {}

\* 'H' in label
has_h(label) == "H" \in letters(label[2])

RECURSIVE polars(_, _)
\* the polar pairs among pairs[p..] (lines 213-221)
polars(pairs, p) ==
  IF p > Len(pairs) THEN <<>>
  ELSE LET pair == pairs[p]
       IN  (IF has_son(pair[1]) /\ has_h(pair[2]) THEN <<pair>> ELSE <<>>)
           \o (IF has_son(pair[2]) /\ has_h(pair[1]) THEN <<pair>> ELSE <<>>)
           \o polars(pairs, p + 1)

RECURSIVE move_b(_, _, _)
\* the square roots of b_i (by atom number) after the pairs pols[p..] have been
\* worked through (lines 228-239)
move_b(roots, pols, p) ==
  IF p > Len(pols) THEN roots
  ELSE LET pair == pols[p]
       IN  IF has_h(pair[1]) \/ has_h(pair[2])
           THEN LET polar_h   == IF has_h(pair[1]) THEN pair[1][1] ELSE pair[2][1]
                    polar_son == IF has_h(pair[1]) THEN pair[2][1] ELSE pair[1][1]
                    added == [roots EXCEPT ![polar_son] = FAdd(roots[polar_son], roots[polar_h])]
                IN  move_b([added EXCEPT ![polar_h] = 0], pols, p + 1)
           ELSE move_b(roots, pols, p + 1)

\* the row with b_i and a_i replaced
with_b_a(atom, b_i, a_i) == SubSeq(atom, 1, Len(atom) - 2) \o <<b_i, a_i>>

\* ddec_data after lines 224-247
corrected_rows(data, topology_edges, input) ==
  LET roots == [p \in 1..Len(data) |-> FSqrt(Last2(data[p]))]
      moved == move_b(roots, polars(new_pairs(topology_edges, input), 1), 1)
  IN  [p \in 1..Len(data) |->
         LET b_i == FSquare(moved[p])
         IN  with_b_a(data[p], b_i, FMul(FMul(32 * FP, b_i), FPow6(Last3(data[p]))))]

CorrectPolarHydrogens ==
  /\ pc = "correct_polar_hydrogens"
  /\ lj_before' = Snapshot
  /\ \E rows \in {corrected_rows(ddec_data, edges, molecule_input)} :
       /\ ddec_data' = rows
       /\ non_bonded_force' =
            [k \in DOMAIN non_bonded_force |->
               LET atom == rows[k + 1]
               IN  <<Str(atom[6]),
                     IF Last(atom) = 0 THEN Str(0) ELSE non_bonded_force[k][2],
                     Str(IF Last(atom) = 0 THEN 0 ELSE epsilon_formula(atom))>>]
  /\ pc' = "apply_symmetrisation"
  /\ UNCHANGED <<inputs, msm_vars, lj_inputs, sites, engine_vars, err>>

(* ---------------------------------------------------------------------- *)
(* LennardJones: symmetrisation                                            *)
(* ---------------------------------------------------------------------- *)

\* float(s) of a string written by str
Float(s) == s[2]

RECURSIVE SeqSum(_)
\* builtin sum
SeqSum(list) == IF list = <<>> THEN 0 ELSE FAdd(list[1], SeqSum(Tail(list)))

\* sum(list) / len(list)
mean(list) == FDiv(SeqSum(list), Len(list) * FP)

\* column c of the entries of the atoms of atom_set, in order
column_of(nbf, atom_set, c) == [p \in 1..Len(atom_set) |-> Float(nbf[atom_set[p] - 1][c])]

RECURSIVE symmetrise_sets(_, _, _, _)
\* non_bonded_force after the atom sets sym_set[p..] of one key, acc holding the
\* lists charges, sigmas and epsilons as they stand (lines 267-277)
symmetrise_sets(nbf, sym_set, p, acc) ==
  IF p > Len(sym_set) THEN nbf
  ELSE LET atom_set == sym_set[p]
           lists == [c \in 1..3 |-> acc[c] \o column_of(nbf, atom_set, c)]
           entry == <<Str(mean(lists[1])), Str(mean(lists[2])), Str(mean(lists[3]))>>
           stored == [k \in DOMAIN nbf |->
                        IF \E q \in 1..Len(atom_set) : atom_set[q] - 1 = k
                        THEN entry ELSE nbf[k]]
       IN  symmetrise_sets(stored, sym_set, p + 1, lists)

RECURSIVE symmetrise_keys(_, _, _)
\* non_bonded_force after the keys symm[p..] (lines 265-266)
symmetrise_keys(nbf, symm, p) ==
  IF p > Len(symm) THEN nbf
  ELSE symmetrise_keys(symmetrise_sets(nbf, symm[p], 1, <<<<>>, <<>>, <<>>>>), symm, p + 1)

ApplySymmetrisation ==
  /\ pc = "apply_symmetrisation"
  /\ lj_before' = Snapshot
  /\ non_bonded_force' = symmetrise_keys(non_bonded_force, symm_hs, 1)
  /\ pc' = "extract_extra_sites"
  /\ UNCHANGED <<inputs, msm_vars, lj_inputs, ddec_data, sites, engine_vars, err>>

(* ---------------------------------------------------------------------- *)
(* LennardJones: extra sites                                               *)
(* ---------------------------------------------------------------------- *)

\* the nodes of the topology
nodes(topology_edges) ==
  {topology_edges[p][1] : p \in 1..Len(topology_edges)}
    \cup {topology_edges[p][2] : p \in 1..Len(topology_edges)}

RECURSIVE neighbors(_, _, _)
\* list(topology.neighbors(n)): the other ends of the edges of n, in the order the
\* edges were added
neighbors(topology_edges, n, p) ==
  IF p > Len(topology_edges) THEN <<>>
  ELSE (IF topology_edges[p][1] = n THEN <<topology_edges[p][2]>>
        ELSE IF topology_edges[p][2] = n THEN <<topology_edges[p][1]>>
        ELSE <<>>) \o neighbors(topology_edges, n, p + 1)

\* closet_atoms (lines 314-318)
closet_atoms(topology_edges, parent) ==
  LET close == neighbors(topology_edges, parent, 1)
  IN  IF Len(close) < 2
      THEN LET further == neighbors(topology_edges, close[1], 1)
           IN  Append(close, further[Len(further)])
      ELSE close

\* molecule['qm'][n - 1][1:]
qm_position(qm, n) == <<qm[n][2], qm[n][3], qm[n][4]>>

\* (p1 / 10, p2 / 10, p3 / 10) of a site at v_pos (lines 321-342)
local_coords(qm, parent, close, v_pos) ==
  LET parent_pos == qm_position(qm, parent)
      close_a == qm_position(qm, close[1])
      close_b == qm_position(qm, close[2])
      ab == VSub(close_a, parent_pos)
      ac == VSub(close_b, parent_pos)
      z_cross == cross(ab, ac)
      z_dir == VDiv(z_cross, norm(z_cross))
      x_dir == VDiv(ab, norm(ab))
      y_dir == cross(z_dir, x_dir)
      rel == VSub(v_pos, parent_pos)
  IN  <<FDiv(dot(rel, x_dir), 10 * FP), FDiv(dot(rel, y_dir), 10 * FP),
        FDiv(dot(rel, z_dir), 10 * FP)>>

\* the entry stored for a site line whose parent is taken to be parent (line 342)
site_entry(qm, topology_edges, parent, pos_site) ==
  LET close == closet_atoms(topology_edges, parent)
  IN  <<<<parent - 1, close[1] - 1, close[2] - 1>>,
        local_coords(qm, parent, close, <<pos_site[2], pos_site[3], pos_site[4]>>),
        pos_site[5]>>

RECURSIVE sites_after(_, _, _, _, _, _)
\* the inner loop of lines 304-343 from line j (0-based in lines[2:]) on for the
\* atom at line i: the sites found so far, or the error raised
sites_after(qm, topology_edges, file, i, j, found) ==
  IF j >= Len(file) \/ file[j + 1][1] # "X" THEN [sites |-> found, raised |-> "none"]
  ELSE LET parent == i + 1 - Len(found)
       IN  IF parent \notin nodes(topology_edges)
           THEN [sites |-> found, raised |-> "NetworkXError"]
           ELSE sites_after(qm, topology_edges, file, i, j + 1,
                            Append(found, site_entry(qm, topology_edges, parent, file[j + 1])))

RECURSIVE sites_from(_, _, _, _, _)
\* the outer loop of lines 298-343 from line i on
sites_from(qm, topology_edges, file, i, found) ==
  IF i >= Len(file) THEN [sites |-> found, raised |-> "none"]
  ELSE IF file[i + 1][1] # "X"
       THEN LET inner == sites_after(qm, topology_edges, file, i, i + 1, found)
            IN  IF inner.raised # "none" THEN inner
                ELSE sites_from(qm, topology_edges, file, i + 1, inner.sites)
       ELSE sites_from(qm, topology_edges, file, i + 1, found)

\* the charge of a parent with the charge of one site added to it
charge_plus_site(charge, site_charge) == FAdd(charge, site_charge)

\* charge = float(charge) - value[2] (line 351)
charge_less_site(charge, site_charge) == FSub(charge, site_charge)

RECURSIVE parents_updated(_, _, _)
\* non_bonded_force after the loop of lines 348-352 over found[p..]
parents_updated(nbf, found, p) ==
  IF p > Len(found) THEN nbf
  ELSE LET value == found[p]
           entry == nbf[value[1][1]]
           charge == charge_less_site(Float(entry[1]), value[3])
       IN  parents_updated([nbf EXCEPT ![value[1][1]] = <<Str(charge), entry[2], entry[3]>>],
                           found, p + 1)

\* lines 385-388: the extra sites of a ONETEP run, then the return
ExtractExtraSites ==
  /\ pc = "extract_extra_sites"
  /\ lj_before' = Snapshot
  /\ IF charges_engine = "onetep"
     THEN \E scan \in {sites_from(molecule_qm, edges, xyz_sites, 0, <<>>)} :
            IF scan.raised = "none"
            THEN /\ sites' = scan.sites
                 /\ non_bonded_force' = parents_updated(non_bonded_force, scan.sites, 1)
                 /\ pc' = "lj_done"
                 /\ err' = "none"
            ELSE /\ err' = scan.raised
                 /\ pc' = "raised"
                 /\ UNCHANGED <<sites, non_bonded_force>>
     ELSE /\ pc' = "lj_done"
          /\ UNCHANGED <<sites, non_bonded_force, err>>
  /\ UNCHANGED <<inputs, msm_vars, lj_inputs, ddec_data, engine_vars>>

(* ---------------------------------------------------------------------- *)
(* Chargemol.generate_input (QUBEKit/engines.py)                           *)
(* ---------------------------------------------------------------------- *)

UnsupportedVersionWarning ==
  "Invalid or unsupported DDEC version given, running with default version 6."

\* the DDEC version generate_input goes on with (lines 301-305)
version_used(version) == IF version # 6 /\ version # 3 THEN 6 ELSE version

\* Chargemol.generate_input on the configuration the LennardJones object reads,
\* before calculate_non_bonded_force is called
ChargemolGenerateInput ==
  /\ pc = "lj_start"
  /\ log_file' = IF ddec_version # 6 /\ ddec_version # 3
                 THEN Append(log_file, UnsupportedVersionWarning)
                 ELSE log_file
  /\ ddec_version' = version_used(ddec_version)
  /\ job_control' = <<"DDEC", version_used(ddec_version)>>
  /\ UNCHANGED <<pc, err, inputs, msm_vars, charges_engine, molecule_input, ddec_file,
                 symm_hs, xyz_sites, lj_state, engine_vars>>

LjNext ==
  \/ ChargemolGenerateInput
  \/ ExtractParams
  \/ AppendAisBis
  \/ CalculateSigEps
  \/ CorrectPolarHydrogens
  \/ ApplySymmetrisation
  \/ ExtractExtraSites

LjSpec == LjInit /\ [][LjNext]_vars

(* ---------------------------------------------------------------------- *)
(* optimised_structure of PSI4 and Gaussian (QUBEKit/engines.py)           *)
(* ---------------------------------------------------------------------- *)

\* the most geometry blocks an output file holds
MaxBlocks == 3

\* engine_mol.molecule: the atoms handed to the engine, a row [name, x, y, z] each
EngineMolecule == <<<<"O", 0, 0, 0>>, <<"H", 960, 0, 0>>>>

\* the O-H distance of the geometries an optimisation passes through
BondLengths == {960, 980, 1000}

\* the coordinates of the two atoms at the O-H distance d
GeometryAt(d) == <<<<0, 0, 0>>, <<d, 0, 0>>>>

PSI4Marker == "==> Geometry <=="

GaussianMarker == "Input orientation:"

\* a line is the sequence of its tokens; a line of text that is neither a marker nor a
\* row of coordinates
TextLine == <<"text">>

\* a geometry block of output.dat: the marker, 8 more lines, a row of
\* centre, x, y, z per atom, and an empty line
PSI4Block(mol, d) ==
  <<<<PSI4Marker>>, TextLine, TextLine, TextLine, TextLine, TextLine, TextLine, TextLine,
    TextLine>>
  \o [a \in 1..Len(mol) |->
        <<mol[a][1], Str(GeometryAt(d)[a][1]), Str(GeometryAt(d)[a][2]),
          Str(GeometryAt(d)[a][3])>>]
  \o <<TextLine>>

\* a geometry block of the Gaussian log: the marker, 4 more lines, a row of centre
\* number, atomic number, atomic type, x, y, z per atom, and a closing line
GaussianBlock(mol, d) ==
  <<<<GaussianMarker>>, TextLine, TextLine, TextLine, TextLine>>
  \o [a \in 1..Len(mol) |->
        <<"centre", "number", "type", Str(GeometryAt(d)[a][1]), Str(GeometryAt(d)[a][2]),
          Str(GeometryAt(d)[a][3])>>]
  \o <<TextLine>>

RECURSIVE OutputFile(_, _, _, _)
\* readlines() of the output of program for the geometries ds[p..], after a heading
OutputFile(program, mol, ds, p) ==
  IF p > Len(ds) THEN <<TextLine>>
  ELSE (IF p = 1 THEN <<TextLine, TextLine>> ELSE <<>>)
       \o (IF program = "psi4" THEN PSI4Block(mol, ds[p]) ELSE GaussianBlock(mol, ds[p]))
       \o OutputFile(program, mol, ds, p + 1)

\* an engine object after __init__ and the run that wrote its output file
EngineInit ==
  /\ pc = "engine_start"
  /\ err = "none"
  /\ MsmIdle
  /\ molecule_qm = <<>> /\ edges = <<>>
  /\ charges_engine = "" /\ ddec_version = 0 /\ molecule_input = <<>> /\ ddec_file = <<>>
  /\ symm_hs = <<>> /\ xyz_sites = <<>>
  /\ ddec_data = <<>> /\ non_bonded_force = <<>> /\ sites = <<>> /\ lj_before = <<>>
  /\ log_file = <<>> /\ job_control = <<>>
  /\ engine_mol = EngineMolecule
  /\ opt_struct = <<>>
  /\ \E program \in {"psi4", "gaussian"} : \E n \in 0..MaxBlocks :
       \E ds \in [1..n -> BondLengths] :
         lines = OutputFile(program, EngineMolecule, ds, 1)

\* marker in line
contains(line, marker) == line[1] = marker

RECURSIVE first_count(_, _, _)
\* the loop over enumerate(lines) with its break: the count (0-based) of the first
\* line from count on that contains the marker, -1 when the else branch is taken
first_count(file, marker, count) ==
  IF count >= Len(file) THEN 0 - 1
  ELSE IF contains(file[count + 1], marker) THEN count
  ELSE first_count(file, marker, count + 1)

\* geo_pos_list of PSI4.optimised_structure (lines 199-204)
geo_pos_list(file) ==
  LET count == first_count(file, PSI4Marker, 0)
  IN  IF count < 0 THEN <<>> ELSE <<count>>

\* opt_coords_pos of Gaussian.optimised_structure (lines 441-445)
opt_coords_pos(file) ==
  LET count == first_count(file, GaussianMarker, 0)
  IN  IF count < 0 THEN <<>> ELSE <<count + 5>>

\* PSI4.optimised_structure
PSI4OptimisedStructure ==
  /\ pc = "engine_start"
  /\ LET found == geo_pos_list(lines)
     IN  IF found = <<>>
         THEN /\ err' = "EOFError"
              /\ pc' = "raised"
              /\ UNCHANGED opt_struct
         ELSE LET start_of_vals == found[Len(found)] + 9
              IN  /\ opt_struct' =
                       [row \in 1..Len(engine_mol) |->
                          LET line == lines[start_of_vals + row]
                          IN  <<line[1], Float(line[2]), Float(line[3]), Float(line[4])>>]
                  /\ pc' = "psi4_done"
                  /\ err' = "none"
  /\ UNCHANGED <<inputs, msm_vars, lj_inputs, lj_state, engine_mol, lines>>

\* Gaussian.optimised_structure
GaussianOptimisedStructure ==
  /\ pc = "engine_start"
  /\ LET found == opt_coords_pos(lines)
     IN  IF found = <<>>
         THEN /\ err' = "EOFError"
              /\ pc' = "raised"
              /\ UNCHANGED opt_struct
         ELSE LET start_pos == found[Len(found)]
              IN  /\ opt_struct' =
                       [count \in 1..Len(engine_mol) |->
                          LET line == lines[start_pos + count]
                          IN  <<engine_mol[count][1], Float(line[Len(line) - 2]),
                                Float(line[Len(line) - 1]), Float(line[Len(line)])>>]
                  /\ pc' = "gaussian_done"
                  /\ err' = "none"
  /\ UNCHANGED <<inputs, msm_vars, lj_inputs, lj_state, engine_mol, lines>>

EngineNext ==
  \/ PSI4OptimisedStructure
  \/ GaussianOptimisedStructure

EngineSpec == EngineInit /\ [][EngineNext]_vars

(* ---------------------------------------------------------------------- *)
(* Properties                                                              *)
(* ---------------------------------------------------------------------- *)

\* cross(u_cb, u_ab) of the angle (a, b, c), atoms 0-based
PlaneCross(a, b, c) ==
  cross(vector_along_bond(coords, c, b), vector_along_bond(coords, a, b))

\* the flanking bonds are colinear: the cross product is the zero vector
Colinear(a, b, c) == PlaneCross(a, b, c) = <<0, 0, 0>>

\* the plane normal is a well-defined non-zero vector
NonColinear(a, b, c) ==
  /\ ~VecIsNaN(PlaneCross(a, b, c))
  /\ PlaneCross(a, b, c) # <<0, 0, 0>>

\* what the regular-case formula gives for a recorded call
RegularResult(call) ==
  LET a == call.atoms[1]
      b == call.atoms[2]
      c == call.atoms[3]
      u_ab == vector_along_bond(coords, a, b)
      u_cb == vector_along_bond(coords, c, b)
  IN  regular_case(u_ab, u_cb, unit_vector_n(u_cb, u_ab),
                   <<bond_lens[a][b], bond_lens[b][c]>>,
                   <<eigenvals[a][b], eigenvals[c][b]>>,
                   <<eigenvecs[a][b], eigenvecs[c][b]>>, call.scalings)

\* C1: every call of force_constant_angle for an angle whose flanking bonds are not
\* colinear takes the regular branch and returns the regular-case force constant
\* (projection sums divided by scalings[0] and scalings[1]); never the 200-sample
\* fallback.
C1_NonColinearTakesRegularCase ==
  \A c \in 1..Len(fca_calls) :
    NonColinear(fca_calls[c].atoms[1], fca_calls[c].atoms[2], fca_calls[c].atoms[3])
      => /\ fca_calls[c].branch = "regular"
         /\ fca_calls[c].samples = 0
         /\ fca_calls[c].k_theta = RegularResult(fca_calls[c]).k_theta

\* the 200 trial force constants of a recorded call, summed
TrialSum(call) ==
  LET a == call.atoms[1]
      b == call.atoms[2]
      c == call.atoms[3]
      u_ab == vector_along_bond(coords, a, b)
      u_cb == vector_along_bond(coords, c, b)
      trial == [t \in 1..200 |->
                  k_theta_sample(t - 1, u_ab, u_cb, <<bond_lens[a][b], bond_lens[b][c]>>,
                                 <<eigenvals[a][b], eigenvals[c][b]>>,
                                 <<eigenvecs[a][b], eigenvecs[c][b]>>)]
  IN  SumArray(trial, 1, 200)

\* C2: a call of force_constant_angle for an angle whose flanking bonds are colinear
\* (the cross product of u_cb and u_ab is the zero vector) raises no error, takes the
\* sampling fallback, and returns the arithmetic mean of exactly 200 trial force
\* constants.
C2_ColinearTakesFallback ==
  \A c \in 1..Len(fca_calls) :
    Colinear(fca_calls[c].atoms[1], fca_calls[c].atoms[2], fca_calls[c].atoms[3])
      => /\ ~fca_calls[c].raised
         /\ err = "none"
         /\ fca_calls[c].branch = "special"
         /\ fca_calls[c].samples = 200
         /\ fca_calls[c].k_theta = FDiv(TrialSum(fca_calls[c]), 200 * FP)

\* the equilibrium angle of angle (a, b, c) in degrees
AngleInDegrees(a, b, c) ==
  degrees(acos(dot(vector_along_bond(coords, a, b), vector_along_bond(coords, c, b))))

\* C3: for every angle of the angle list already processed, whichever branch computed
\* it, the equilibrium angle emitted by calculate_angles is the angle in degrees.
C3_EmittedAngleInDegrees ==
  \A i \in 1..idx :
    /\ theta_0[i] = AngleInDegrees(angle_list[i][1] - 1, angle_list[i][2] - 1,
                                   angle_list[i][3] - 1)
    /\ unique_values_angles[i][5] = theta_0[i]
    /\ angle_file[i][4] = Fmt3(theta_0[i])

RECURSIVE SumSquaredDots(_, _, _, _)
\* the sum over the rows k..Len(u_pas) that are in others of |<u_pas[j], u_pas[k]>|^2
SumSquaredDots(u_pas, j, others, k) ==
  IF k > Len(u_pas) THEN 0
  ELSE LET rest == SumSquaredDots(u_pas, j, others, k + 1)
           d    == FAbs(dot(u_pas[j], u_pas[k]))
       IN  IF k \in others THEN FAdd(FMul(d, d), rest) ELSE rest

\* the other entries of central atom i with the flanking atom of entry j
OtherEntries(i, j) ==
  {k \in 1..Len(central_atoms_angles[i]) :
     k # j /\ central_atoms_angles[i][k][1] = central_atoms_angles[i][j][1]}

\* 1 + mean of the squared dot products with the other entries, 1 when there is none
ExpectedFactor(i, j) ==
  IF OtherEntries(i, j) = {} THEN FP
  ELSE FAdd(FP, FDiv(SumSquaredDots(unit_pa_all_angles[i], j, OtherEntries(i, j), 1),
                     Cardinality(OtherEntries(i, j)) * FP))

ScalingFactorsKnown == pc \in {"order_scalings", "angle_loop", "raised", "done"}

RECURSIVE FactorsOfAngle(_, _, _)
\* the factors of the rows p..Len(rows) whose angle index is i, in order
FactorsOfAngle(rows, i, p) ==
  IF p > Len(rows) THEN <<>>
  ELSE IF rows[p][2] = i THEN <<rows[p][1]>> \o FactorsOfAngle(rows, i, p + 1)
  ELSE FactorsOfAngle(rows, i, p + 1)

\* the factors derived for the flanking bonds of the angle at position i (0-based)
OwnFactors(i) == FactorsOfAngle(rows_in_order(scaling_factor_all_angles, 0), i, 1)

\* C5: for every angle at position i of the angle list, the 2-element scaling factor
\* handed to force_constant_angle consists of the two factors derived for angle i's
\* own flanking bonds, and of no factor derived for another angle.
C5_OwnScalingsPassed ==
  /\ pc \in {"angle_loop", "raised", "done"} =>
       \A i \in 0..(Len(angle_list) - 1) :
         scalings_of(scaling_factors_angles_list, i) \in {OwnFactors(i), Reversed(OwnFactors(i))}
  /\ \A c \in 1..Len(fca_calls) :
       fca_calls[c].scalings \in {OwnFactors(fca_calls[c].angle),
                                  Reversed(OwnFactors(fca_calls[c].angle))}

\* the factor derived for angle i (0-based) and its flanking atom x (0-based)
FactorOfBond(i, x) ==
  LET b == angle_list[i + 1][2] - 1
      j == CHOOSE j \in 1..Len(central_atoms_angles[b]) :
             /\ central_atoms_angles[b][j][1] = x
             /\ central_atoms_angles[b][j][3] = i
  IN  scaling_factor_all_angles[b][j][1]

\* vib_scaling ** 2 times the mean of the result for (a, b, c) with (s_ab, s_cb) and
\* the result for (c, b, a) with (s_cb, s_ab)
SymmetricAngleK(i) ==
  LET a == angle_list[i + 1][1] - 1
      b == angle_list[i + 1][2] - 1
      c == angle_list[i + 1][3] - 1
      s_ab == FactorOfBond(i, a)
      s_cb == FactorOfBond(i, c)
      abc == force_constant_angle(a, b, c, bond_lens, eigenvals, eigenvecs, coords,
                                  <<s_ab, s_cb>>)
      cba == force_constant_angle(c, b, a, bond_lens, eigenvals, eigenvecs, coords,
                                  <<s_cb, s_ab>>)
  IN  FMul(FMul(vib_scaling, vib_scaling), Mean2(abc.k_theta, cba.k_theta))

\* C6: for every angle processed, the force constant reported by calculate_angles is
\* vib_scaling squared times the mean of the result for (a, b, c) with the factors
\* (s_ab, s_cb) and the result for (c, b, a) with the factors (s_cb, s_ab), a value
\* that does not depend on the direction in which the angle is listed.
C6_AngleMeanOfBothOrders ==
  \A i \in 1..idx :
    /\ k_theta[i] = SymmetricAngleK(i - 1)
    /\ unique_values_angles[i][4] = k_theta[i]

\* C7: for every bond processed, the force constant reported by calculate_bonds is
\* vib_scaling squared times the mean of force_constant_bond(a, b) and
\* force_constant_bond(b, a); the same bond listed as (b, a) gets the same force
\* constant and the same equilibrium length.
C7_BondMeanOfBothOrders ==
  \A p \in 1..pos :
    LET a == edges[p][1] - 1
        b == edges[p][2] - 1
        ab == force_constant_bond(a, b, eigenvals, eigenvecs, coords)
        ba == force_constant_bond(b, a, eigenvals, eigenvecs, coords)
    IN  /\ k_b[p] = FMul(Mean2(ab, ba), FMul(vib_scaling, vib_scaling))
        /\ k_b[p] = bond_k(Reversed(edges[p]), eigenvals, eigenvecs, coords, vib_scaling)
        /\ bond_len_list[p] = bond_lens[a][b]
        /\ bond_len_list[p] = bond_lens[b][a]
        /\ unique_values_bonds[p][3] = k_b[p]
        /\ unique_values_bonds[p][4] = bond_len_list[p]

\* C7 witness: a bond has been processed whose two orders give different finite force
\* constants
C7_Witness ==
  \E p \in 1..pos :
    LET a == edges[p][1] - 1
        b == edges[p][2] - 1
        ab == force_constant_bond(a, b, eigenvals, eigenvecs, coords)
        ba == force_constant_bond(b, a, eigenvals, eigenvecs, coords)
    IN  /\ ~IsNaN(ab) /\ ~IsNaN(ba) /\ ab # ba
        /\ k_b[p] # FMul(ab, FMul(vib_scaling, vib_scaling))
        /\ k_b[p] # 0

\* C8: after modified_seminario_method completes, the molecule holds a bond table with
\* one entry per bond of the topology, keyed by the 0-based pair (a-1, b-1), and an
\* angle table with one entry per angle of the angle list, keyed by the 0-based triple
\* (a-1, b-1, c-1).
C8_ParameterTablesPopulated ==
  pc = "done" =>
    /\ DOMAIN HarmonicBondForce = {<<e[1] - 1, e[2] - 1>> : e \in Range(edges)}
    /\ DOMAIN HarmonicAngleForce =
         {<<t[1] - 1, t[2] - 1, t[3] - 1>> : t \in Range(angle_list)}

\* C9: given a Hessian that is not symmetric, modified_seminario_method fails with an
\* error before any bond or angle parameter is computed, stored or written.
C9_AsymmetricHessianRejected ==
  (~IsSymmetric(hessian) /\ pc # "start") =>
    /\ err # "none"
    /\ eigenvals = <<>>
    /\ pos = 0
    /\ HarmonicBondForce = <<>>
    /\ bond_file = <<>>
    /\ idx = 0
    /\ angle_file = <<>>

\* C10: vector_along_bond fails with an error when the two atoms have identical
\* coordinates; no bond whose atoms coincide gets a force constant computed from the
\* vector it returns.
C10_CoincidentAtomsRejected ==
  \A p \in 1..pos :
    coords[edges[p][1] - 1] = coords[edges[p][2] - 1]
      => /\ err # "none"
         /\ ~VecIsNaN(vector_along_bond(coords, edges[p][1] - 1, edges[p][2] - 1))

\* the atoms of the molecule, 0-based
Atoms == 0..(Len(molecule_qm) - 1)

\* the four caches as the construction pass of lines 155-173 leaves them
CachesAsBuilt ==
  /\ coords = reshape_coords(molecule_qm)
  /\ bond_lens = [i \in Atoms |-> [j \in Atoms |-> norm(VSub(coords[i], coords[j]))]]
  /\ eigenvals = [i \in Atoms |-> [j \in Atoms |->
                    eig_values(partial_hessian(hessian, i, j))]]
  /\ eigenvecs = [i \in Atoms |-> [j \in Atoms |->
                    eig_vectors(partial_hessian(hessian, i, j))]]

\* no bond and no angle has been processed
NothingProcessed ==
  /\ pos = 0 /\ idx = 0
  /\ bond_file = <<>> /\ angle_file = <<>>
  /\ HarmonicBondForce = <<>>
  /\ fca_calls = <<>>

\* C11: the bond-length matrix and the eigen-decomposition of each of the N^2 ordered
\* 3x3 blocks are built in one pass before any bond or angle is processed; from then on
\* calculate_bonds, calculate_angles and the ModSemMaths functions leave bond_lens,
\* eigenvals, eigenvecs and coords as that pass built them.
C11_CachesBuiltOnceThenReadOnly ==
  /\ pc = "start" => (caches = <<<<>>, <<>>, <<>>, <<>>>> /\ NothingProcessed)
  /\ pc = "calculate_bonds" => NothingProcessed
  /\ pc # "start" =>
       /\ CachesAsBuilt
       /\ \A i \in Atoms : \A j \in Atoms :
            Len(eigenvals[i][j]) = 3 /\ Len(eigenvecs[i][j]) = 3

\* C11 witness: bonds and angles have been processed and the method has returned
C11_Witness ==
  /\ pc = "done"
  /\ pos > 0 /\ idx > 0
  /\ CachesAsBuilt
  /\ bond_lens[0][1] > 0

\* the eigenvectors with no column negated
PlainEigenvecs ==
  [i \in Atoms |-> [j \in Atoms |-> eig_vectors(partial_hessian(hessian, i, j))]]

\* C12: the bond and angle force constants do not depend on the sign of the cached
\* eigenvectors: with any eigenvector column of any block negated, force_constant_bond
\* and force_constant_angle (either branch) return what they return for the
\* eigenvectors as they were.
C12_EigenvectorSignInvariant ==
  /\ \A p \in 1..pos :
       LET a == edges[p][1] - 1
           b == edges[p][2] - 1
       IN  /\ force_constant_bond(a, b, eigenvals, eigenvecs, coords)
                = force_constant_bond(a, b, eigenvals, PlainEigenvecs, coords)
           /\ force_constant_bond(b, a, eigenvals, eigenvecs, coords)
                = force_constant_bond(b, a, eigenvals, PlainEigenvecs, coords)
           /\ k_b[p] = bond_k(edges[p], eigenvals, PlainEigenvecs, coords, vib_scaling)
  /\ \A c \in 1..Len(fca_calls) :
       LET call  == fca_calls[c]
           plain == force_constant_angle(call.atoms[1], call.atoms[2], call.atoms[3],
                                         bond_lens, eigenvals, PlainEigenvecs, coords,
                                         call.scalings)
       IN  /\ call.k_theta = plain.k_theta
           /\ call.branch = plain.branch

\* C12 witness: a finite non-zero angle force constant has been computed from a block
\* with a negated eigenvector
C12_Witness ==
  \E c \in 1..Len(fca_calls) :
    /\ eigenvecs[fca_calls[c].atoms[1]][fca_calls[c].atoms[2]]
         # PlainEigenvecs[fca_calls[c].atoms[1]][fca_calls[c].atoms[2]]
    /\ ~IsNaN(fca_calls[c].k_theta)
    /\ fca_calls[c].k_theta # 0

\* the elements append_ais_bis holds reference constants for
KnownElements == {"H", "C", "N", "O", "F", "S", "Cl", "Br"}

\* the molecule has an atom of an element outside KnownElements
HasUnknownElement ==
  \E p \in 1..Len(molecule_input) : molecule_input[p][1] \notin KnownElements

\* the steps of calculate_non_bonded_force up to append_ais_bis, and the failure
UpToAisBis == {"lj_start", "append_ais_bis", "raised"}

\* C13: for a molecule with an atom whose element is outside {H, C, N, O, F, S, Cl, Br},
\* calculate_non_bonded_force never gets past append_ais_bis, which fails with an
\* error; no r_aim, b_i, a_i is appended for the atom of the unknown element (no default
\* constants), and non_bonded_force never holds an entry for any atom.
C13_UnknownElementIsAnError ==
  HasUnknownElement =>
    /\ pc \in UpToAisBis
    /\ pc = "raised" => err # "none"
    /\ non_bonded_force = <<>>
    /\ \A p \in DOMAIN ddec_data :
         ddec_data[p][2] \notin KnownElements =>
           Len(ddec_data[p]) = IF charges_engine = "chargemol" THEN 10 ELSE 7

\* append_ais_bis has met the atom of the unknown element and has raised
C13_Witness ==
  /\ HasUnknownElement
  /\ pc = "raised"
  /\ err = "KeyError"
  /\ ddec_data # <<>>
  /\ lj_before.ddec_data = ddec_data

\* the atoms (1-based) whose AIM volume is 0
ZeroVolumeAtoms == {p \in 1..Len(ddec_file) : ddec_file[p][3] = 0}

\* C14: for every atom whose AIM volume is 0, the sigma and epsilon stored in
\* non_bonded_force are exactly 0 after calculate_sig_eps and still 0 after
\* correct_polar_hydrogens, and calculate_sig_eps raises no division by zero.
C14_ZeroVolumeGivesZeroSigmaEpsilon ==
  /\ err # "ZeroDivisionError"
  /\ pc \in {"correct_polar_hydrogens", "apply_symmetrisation"} =>
       \A p \in ZeroVolumeAtoms :
         /\ Float(non_bonded_force[p - 1][2]) = 0
         /\ Float(non_bonded_force[p - 1][3]) = 0

\* correct_polar_hydrogens has run on a molecule with an atom of volume 0 whose
\* neighbours have b_i above 0
C14_Witness ==
  /\ pc = "apply_symmetrisation"
  /\ ZeroVolumeAtoms # {}
  /\ \E p \in 1..Len(ddec_data) : p \notin ZeroVolumeAtoms /\ Last(ddec_data[p]) # 0

\* C19: calculate_non_bonded_force called with a charges_engine other than 'chargemol'
\* or 'onetep' fails at its first step with an error and does nothing else: ddec_data
\* and non_bonded_force stay empty and no site is stored.
C19_InvalidEngineFailsAtOnce ==
  charges_engine \notin {"chargemol", "onetep"} =>
    /\ pc \in {"lj_start", "raised"}
    /\ pc = "raised" => err = "KeyError"
    /\ ddec_data = <<>>
    /\ non_bonded_force = <<>>
    /\ sites = <<>>

\* the call with the engine psi4 has been made and has failed
C19_Witness ==
  /\ charges_engine = "psi4"
  /\ pc = "raised"
  /\ lj_before = [ddec_data |-> <<>>, non_bonded_force |-> <<>>]

\* atoms p and q (1-based) are bonded, whichever way round the edge is listed
Bonded(p, q) ==
  \E e \in 1..Len(edges) : edges[e] = <<p, q>> \/ edges[e] = <<q, p>>

IsHydrogen(p) == molecule_input[p][1] = "H"

IsSON(p) == molecule_input[p][1] \in {"O", "N", "S"}

\* hydrogen p is bonded to an O, N or S atom
IsPolarHydrogen(p) ==
  IsHydrogen(p) /\ \E q \in 1..Len(molecule_input) : IsSON(q) /\ Bonded(p, q)

\* the square root of b_i of atom p before the correction
RootBefore(p) == FSqrt(Last2(lj_before.ddec_data[p]))

RECURSIVE SumOfRoots(_)
\* the sum of the pre-correction roots of the atoms of the set S
SumOfRoots(S) ==
  IF S = {} THEN 0
  ELSE LET p == CHOOSE x \in S : TRUE
       IN  FAdd(RootBefore(p), SumOfRoots(S \ {p}))

\* the polar hydrogens bonded to atom q
PolarHydrogensOf(q) ==
  {p \in 1..Len(molecule_input) : IsHydrogen(p) /\ Bonded(p, q)}

\* C15: after correct_polar_hydrogens, every hydrogen bonded to an O, N or S atom has
\* b_i exactly 0; every O, N or S atom has b_i equal to the square of its own
\* pre-correction root of b_i plus the sum of the pre-correction roots of all polar
\* hydrogens bonded to it; every other atom has the b_i it had (the square of its own
\* root), whichever way round each bond is listed.
C15_PolarHydrogenRedistribution ==
  pc = "apply_symmetrisation" =>
    \A p \in 1..Len(ddec_data) :
      Last2(ddec_data[p]) =
        IF IsPolarHydrogen(p) THEN 0
        ELSE IF IsSON(p)
             THEN FSquare(FAdd(RootBefore(p), SumOfRoots(PolarHydrogensOf(p))))
             ELSE FSquare(RootBefore(p))

\* C16: correct_polar_hydrogens leaves the sigma of every atom in non_bonded_force as
\* calculate_sig_eps stored it, polar hydrogens included, and leaves the charge as it
\* was; only epsilon is recomputed.
C16_SigmaUntouchedByPolarCorrection ==
  pc = "apply_symmetrisation" =>
    \A k \in DOMAIN non_bonded_force :
      /\ non_bonded_force[k][2] = lj_before.non_bonded_force[k][2]
      /\ non_bonded_force[k][1] = lj_before.non_bonded_force[k][1]

\* the atom sets declared in molecule.symm_hs, under whichever key
DeclaredAtomSets ==
  UNION {{symm_hs[k][q] : q \in 1..Len(symm_hs[k])} : k \in 1..Len(symm_hs)}

\* the mean of column c of the pre-averaging entries of the atoms of atom_set
MeanBefore(atom_set, c) == mean(column_of(lj_before.non_bonded_force, atom_set, c))

\* C17: for every atom set declared in molecule.symm_hs, after apply_symmetrisation
\* all atoms of the set hold the same charge, sigma and epsilon, each the arithmetic
\* mean of the pre-averaging values of the atoms of that set only, also when several
\* atom sets are declared under one key.
C17_SymmetrisedToMeanOfOwnSet ==
  pc = "extract_extra_sites" =>
    \A atom_set \in DeclaredAtomSets :
      \A p \in 1..Len(atom_set) :
        \A c \in 1..3 :
          Float(non_bonded_force[atom_set[p] - 1][c]) = MeanBefore(atom_set, c)

RECURSIVE SiteChargeOf(_, _)
\* the sum of the charges of the sites stored from position p on whose parent is the
\* atom at position k (0-based)
SiteChargeOf(k, p) ==
  IF p > Len(sites) THEN 0
  ELSE FAdd(IF sites[p][1][1] = k THEN sites[p][3] ELSE 0, SiteChargeOf(k, p + 1))

\* the positions (0-based) of the atoms stored as parent of a site
Parents == {sites[p][1][1] : p \in 1..Len(sites)}

RECURSIVE LastCount(_, _, _)
\* the count (0-based) of the last line up to count that contains the marker, -1 if
\* there is none
LastCount(file, marker, count) ==
  IF count < 0 THEN 0 - 1
  ELSE IF contains(file[count + 1], marker) THEN count
  ELSE LastCount(file, marker, count - 1)

\* the coordinates of the atoms in the rows that follow line count by skip lines
CoordinatesAt(file, count, skip, n) ==
  [a \in 1..n |->
     LET line == file[count + skip + a]
     IN  <<Float(line[Len(line) - 2]), Float(line[Len(line) - 1]), Float(line[Len(line)])>>]

\* the coordinates returned, without the names
ReturnedCoordinates == [a \in 1..Len(opt_struct) |-> Tail(opt_struct[a])]

\* C20: when the output file holds several geometry blocks, PSI4.optimised_structure
\* and Gaussian.optimised_structure return the coordinates of the last block, not
\* those of an earlier one.
C20_LastGeometryReturned ==
  /\ pc = "psi4_done" =>
       ReturnedCoordinates
         = CoordinatesAt(lines, LastCount(lines, PSI4Marker, Len(lines) - 1), 9,
                         Len(engine_mol))
  /\ pc = "gaussian_done" =>
       ReturnedCoordinates
         = CoordinatesAt(lines, LastCount(lines, GaussianMarker, Len(lines) - 1), 5,
                         Len(engine_mol))

\* C21: in every call force_constant_angle(a, b, c, ...) made for the angle at
\* position i, the first scaling factor handed over is the one derived for the
\* flanking bond a-b (the grouping entry of angle i whose other-end atom is a) and the
\* second is the one derived for c-b, also when a has a larger index than c.
C21_ScalingsFollowTheFlankingBonds ==
  \A c \in 1..Len(fca_calls) :
    /\ fca_calls[c].scalings[1] = FactorOfBond(fca_calls[c].angle, fca_calls[c].atoms[1])
    /\ fca_calls[c].scalings[2] = FactorOfBond(fca_calls[c].angle, fca_calls[c].atoms[3])

\* the positions (0-based) in the angle list of the angles whose middle atom is b + 1
AnglesAround(b) == {k \in 0..(Len(angle_list) - 1) : angle_list[k + 1][2] = b + 1}

\* the grouping step of calculate_angles has run
Grouped == pc \in {"find_u_pa", "scaling_factors", "order_scalings", "angle_loop", "raised",
                   "done"}

\* C22: after the grouping step of calculate_angles, for every atom index b the list
\* central_atoms_angles[b] holds, for each angle (a, b + 1, c) of the angle list at
\* position k, the two entries [a-1, c-1, k] and [c-1, a-1, k] and nothing else, in
\* non-decreasing order of the first component.
C22_GroupingHoldsBothEntriesSorted ==
  Grouped =>
    \A b \in DOMAIN central_atoms_angles :
      LET rows == central_atoms_angles[b]
      IN  /\ Len(rows) = 2 * Cardinality(AnglesAround(b))
          /\ \A k \in AnglesAround(b) :
               LET a == angle_list[k + 1][1] - 1
                   c == angle_list[k + 1][3] - 1
               IN  /\ \E j \in 1..Len(rows) : rows[j] = <<a, c, k>>
                   /\ \E j \in 1..Len(rows) : rows[j] = <<c, a, k>>
          /\ \A j \in 1..Len(rows) : rows[j][3] \in AnglesAround(b)
          /\ \A j \in 1..(Len(rows) - 1) : rows[j][1] <= rows[j + 1][1]

\* two angles share a central atom and the sort has moved their entries
C22_Witness ==
  /\ Grouped
  /\ \E b \in DOMAIN central_atoms_angles :
       /\ Len(central_atoms_angles[b]) = 4
       /\ central_atoms_angles[b] # rows_of_central(b, angle_list, 1)

RECURSIVE AtomsBefore(_, _)
\* the number of lines of real atoms among the first n lines of the site file
AtomsBefore(file, n) ==
  IF n = 0 THEN 0
  ELSE AtomsBefore(file, n - 1) + (IF file[n][1] # "X" THEN 1 ELSE 0)

\* the lines (1-based) of the virtual sites of the site file, in order
SiteLines == {n \in 1..Len(xyz_sites) : xyz_sites[n][1] = "X"}

\* the line of the p-th virtual site of the file
SiteLineNo(p) ==
  CHOOSE n \in SiteLines : Cardinality({q \in SiteLines : q <= n}) = p

\* C23: extract_extra_sites stores every virtual site of the file, and the parent
\* stored for a site is the real atom whose line most closely precedes the site,
\* numbered by its position among the real atoms, also for the second and later sites
\* of an atom and for atoms that follow earlier site-bearing atoms.
C23_ParentIsThePrecedingAtom ==
  /\ (pc = "raised" /\ charges_engine = "onetep") => err # "NetworkXError"
  /\ (pc = "lj_done" /\ charges_engine = "onetep") =>
       /\ Len(sites) = Cardinality(SiteLines)
       /\ \A p \in 1..Len(sites) :
            sites[p][1][1] = AtomsBefore(xyz_sites, SiteLineNo(p)) - 1

\* C24: for every virtual site stored by extract_extra_sites, the parent and the two
\* reference atoms are three distinct atoms; when the parent has a single neighbour,
\* the atom borrowed from that neighbour's neighbours is not the parent itself.
C24_ReferenceAtomsDistinct ==
  (pc = "lj_done" /\ charges_engine = "onetep") =>
    \A p \in 1..Len(sites) :
      /\ sites[p][1][1] # sites[p][1][2]
      /\ sites[p][1][1] # sites[p][1][3]
      /\ sites[p][1][2] # sites[p][1][3]

\* the DDEC version the configuration was set up with is neither 3 nor 6
ConfiguredUnsupported ==
  \/ ddec_version \notin {3, 6}
  \/ \E m \in 1..Len(log_file) : log_file[m] = UnsupportedVersionWarning

\* C25: a configured DDEC version other than 3 or 6 is never replaced by another
\* value, whatever ran before, and extract_params_chargemol raises for it:
\* calculate_non_bonded_force with the engine chargemol ends there in an error with
\* no parameters read.
C25_UnsupportedVersionAlwaysRejected ==
  (charges_engine = "chargemol" /\ ConfiguredUnsupported) =>
    /\ ddec_version \notin {3, 6}
    /\ pc \in {"lj_start", "raised"}
    /\ pc = "raised" => err = "ValueError"
    /\ ddec_data = <<>>

RECURSIVE AtomChargeSum(_)
\* the sum of the charges of the atoms at positions k.. of non_bonded_force
AtomChargeSum(k) ==
  IF k \notin DOMAIN non_bonded_force THEN 0
  ELSE FAdd(Float(non_bonded_force[k][1]), AtomChargeSum(k + 1))

RECURSIVE SiteChargeSum(_)
\* the sum of the charges of the sites stored from position p on
SiteChargeSum(p) ==
  IF p > Len(sites) THEN 0 ELSE FAdd(sites[p][3], SiteChargeSum(p + 1))

RECURSIVE AimChargeSum(_)
\* the sum of the AIM charges of the partition data from atom p on
AimChargeSum(p) ==
  IF p > Len(ddec_file) THEN 0 ELSE FAdd(ddec_file[p][2], AimChargeSum(p + 1))

\* C26: in the non_bonded_force that calculate_non_bonded_force returns, the sum of all
\* atom charges plus the sum of all virtual-site charges equals the sum of the AIM
\* charges read from the partition data, for any symmetry groups and any sites.
C26_NetChargePreserved ==
  pc = "lj_done" => FAdd(AtomChargeSum(0), SiteChargeSum(1)) = AimChargeSum(1)

====
